---- MODULE Spec2Model ----
(***************************************************************************)
(* Model of the "traced" execution tracer: the thread-local TraceContext,  *)
(* the three binding modes of the instrumentation layer (the @traced       *)
(* function wrapper, the method wrapper installed by Traced._wrap_methods, *)
(* the TracedSpan context manager) and the event store they write to.      *)
(*                                                                         *)
(* Every thread has a call stack of open instrumented invocations.  The    *)
(* code that runs between two instrumentation steps (the body of a traced  *)
(* function, the region of a span, top-level code) is user code: it may    *)
(* call any instrumented operation, return a value or raise.               *)
(***************************************************************************)
EXTENDS Integers, Sequences, FiniteSets, TLC

(* ------------------------------------------------------------------ *)
(* Bounds of the model                                                *)
(* ------------------------------------------------------------------ *)
MaxCalls == 2        \* instrumented invocations of a program in any mode
MaxChain == 3        \* invocations of a program of functions and spans
MaxCallsConc == 3    \* invocations of a program that runs two threads
MaxDepth == 3        \* nesting depth of open invocations on a thread
MaxInst == 1         \* Traced instances constructed per behaviour
MaxHierInst == 2     \* instances constructed from a class hierarchy
MaxWrapCalls == 3    \* invocations of a program over a class hierarchy
MaxFaults == 1       \* storage writes that fail per behaviour
MaxCtxId == 3        \* identifiers user code stores in the TraceContext
MaxClock == 3        \* values the clock takes while a program runs
MaxStored == 3       \* save calls a program makes on a storage backend
MaxStoreTrace == 2   \* trace ids of the records such a program saves
MaxBackendSaves == 2 \* records with data a program saves on a backend
MaxViewRows == 3     \* rows of a database the viewer rebuilds traces from
MaxViewTime == 2     \* timestamps of these rows
MaxListRows == 3     \* rows of a database whose traces the viewer lists
MaxListTraces == 3   \* trace ids of these rows
MaxListTime == 3     \* timestamps of these rows
MaxLimit == 3        \* the limit given to list_traces
MaxStorages == 3     \* storage objects a program creates
MaxConfSaves == 2    \* events written to one configured storage
MaxIdCalls == 2      \* invocations of a program that passes explicit ids
MaxExecEvents == 3   \* events of an Execution object the viewer is given
MaxExecTime == 3     \* timestamps of these events
MaxMemSaves == 3     \* save_trace_event calls of concurrent writers

(* ------------------------------------------------------------------ *)
(* Values                                                             *)
(* ------------------------------------------------------------------ *)
\* Python's None, as an identifier value (TraceContext getters return it
\* when the attribute is unset); uuid4 values are the integers 1, 2, ...
None == 0
\* the `is None` result of an operation that returns nothing
NoResult == 0 - 1
\* explicit trace_id / parent_id given to @traced(...) at decoration time
ExplicitTraceId == 0 - 10
ExplicitParentId == 0 - 11
\* ids user code stores in the TraceContext itself
UserTraceId == 0 - 20
UserParentId == 0 - 21

Threads == {1, 2}
Args == {"x", "y"}
Results == {0, 1}
NoExc == [type |-> "", msg |-> ""]
UserExcs == {[type |-> "ValueError", msg |-> "bad value"]}
StorageError == [type |-> "StorageError", msg |-> "write failed"]
TypeError == [type |-> "TypeError", msg |-> "bad arguments"]
\* an exception that derives from BaseException and not from Exception
KeyboardInterrupt == [type |-> "KeyboardInterrupt", msg |-> ""]

\* @traced functions of the program under trace: f is decorated bare,
\* h is decorated with explicit trace_id and parent_id, d is decorated
\* twice (traced(traced(d))), q is decorated with record_params=False and
\* record_results=False.
Funcs == {"f", "h", "d", "q"}
\* how many times traced was applied to the function
Layers(fn) == IF fn = "d" THEN 2 ELSE 1
record_params(fn) == fn # "q"
record_results(fn) == fn # "q"
FnTraceId(fn) == IF fn = "h" THEN ExplicitTraceId ELSE None
FnParentId(fn) == IF fn = "h" THEN ExplicitParentId ELSE None
\* `with span("s"):` and `with span("x", trace_id=..., parent_id=...):`
SpanNames == {"s", "x"}
SpanTraceId(name) == IF name = "x" THEN ExplicitTraceId ELSE None
SpanParentId(name) == IF name = "x" THEN ExplicitParentId ELSE None

\* Traced subclasses of the program under trace.  dir(cls) lists the
\* public names in sorted order: the class's own methods together with
\* the public helpers inherited from Traced.
\*   class Agent(Traced):  def alpha(self, x) ...  def zeta(self, x) ...
\*   class Worker(Traced): def alpha(self, x) ...
\*   class Store(Traced):  TRACED_EXCLUDE = ["trace_event"]
\*   class Base(Traced):   def alpha(self, x) ...  def zeta(self, x) ...
\*                         def _hidden(self, x) ...
\*                         @not_traced
\*                         def quiet(self, x) ...
\*   class Derived(Base):  TRACED_EXCLUDE = ["zeta"]
\*   class Mute(Traced):   TRACED_RECORD_PARAMS = False
\*                         TRACED_RECORD_RESULTS = False
\*                         def alpha(self, x) ...  def zeta(self, x) ...
\*   class Pinned(Traced): def alpha(self, x) ...
\* Pinned is constructed as Pinned(trace_id=..., parent_id=...), every other
\* class with no arguments.
Classes == {"Agent", "Worker", "Store", "Base", "Derived", "Mute", "Pinned"}
CtorTraceId(c) == IF c = "Pinned" THEN ExplicitTraceId ELSE None
CtorParentId(c) == IF c = "Pinned" THEN ExplicitParentId ELSE None
DirOrder == <<"_hidden", "alpha", "get_trace", "quiet", "save_artifact",
              "trace_event", "zeta">>
OwnMethods(c) ==
  CASE c \in {"Agent", "Mute"} -> {"alpha", "zeta"}
    [] c \in {"Worker", "Pinned"} -> {"alpha"}
    [] c = "Base" -> {"_hidden", "alpha", "quiet", "zeta"}
    [] OTHER -> {}
\* the class next in the method resolution order
Parent(c) == IF c = "Derived" THEN "Base" ELSE "Traced"
TRACED_EXCLUDE(c) ==
  CASE c = "Store" -> {"trace_event"}
    [] c = "Derived" -> {"zeta"}
    [] OTHER -> {}
TRACED_RECORD_PARAMS(c) == c # "Mute"
TRACED_RECORD_RESULTS(c) == c # "Mute"
Helpers == {"get_trace", "save_artifact", "trace_event"}
InheritedMethods(c) ==
  IF Parent(c) \in Classes THEN OwnMethods(Parent(c)) ELSE {}
DirNames(c) == OwnMethods(c) \cup InheritedMethods(c) \cup Helpers
\* attr_name.startswith('_')
StartsWithUnderscore(n) == n \in {"_hidden"}
\* the function carries the _not_traced marker set by @not_traced
HasNotTraced(n) == n \in {"quiet"}
AllNames == {DirOrder[i] : i \in 1..Len(DirOrder)}
\* names user code calls on an instance
Callable(c) == DirNames(c) \ {"get_trace"}
\* number of positional arguments a caller passes to the operation and
\* the numbers its original implementation accepts
NArgs(n) == IF n \in {"save_artifact", "trace_event"} THEN 2 ELSE 1
Accepts(n, k) ==
  CASE n = "trace_event" -> k = 2
    [] n = "save_artifact" -> k \in {2, 3}
    [] OTHER -> k = 1

VARIABLES
  ctx,        \* TraceContext._local: slot -> [trace_id, parent_id]
  stack,      \* thread -> sequence of open instrumented invocations
  events,     \* storage.events, in insertion order
  artifacts,  \* storage.artifacts, in insertion order
  nextId,     \* next value uuid.uuid4() yields
  instances,  \* constructed Traced objects
  attrs,      \* class -> name -> the attribute found on the class
  faults,     \* storage writes that have failed
  program,    \* the program under trace: its threads and what it calls
  calls,      \* history: one record per instrumented invocation
  exited,     \* history: thread -> the invocation that exited last
  written,    \* history: thread -> what its own set/clear calls left
  clock,      \* what time.time() answers
  saved,      \* history: the records the save calls of user code stored
  _trace_storage,  \* the module global of core/base.py: the active storage
  configured, \* history: the last call of configure_tracing
  view        \* what the viewer computed last from the database

\* the wall clock and the history of the direct TraceContext calls of user
\* code
aux == <<written, clock, saved>>
\* the storage configuration and the viewer's last answer
more == <<_trace_storage, configured, view>>

vars == <<ctx, stack, events, artifacts, nextId, instances, attrs, faults,
          program, calls, exited, aux, more>>


(* ------------------------------------------------------------------ *)
(* TraceContext (thread-local storage)                                *)
(* ------------------------------------------------------------------ *)
\* a plain object in place of threading.local(): one namespace for all
SharedLocal(t) == 1

\* threading.local(): every thread sees its own attribute namespace
Local(t) == t

EmptyContext == [trace_id |-> None, parent_id |-> None]
get_current_trace_id(c, t) == c[Local(t)].trace_id
get_current_parent_id(c, t) == c[Local(t)].parent_id
set_current_trace_id(c, t, v) == [c EXCEPT ![Local(t)].trace_id = v]
set_current_parent_id(c, t, v) == [c EXCEPT ![Local(t)].parent_id = v]
\* clear() that forgets the trace id only
clearTraceIdOnly(c, t) == [c EXCEPT ![Local(t)].trace_id = None]

\* clear(): both attributes are deleted; the getters then answer None
clear(c, t) == [c EXCEPT ![Local(t)] = EmptyContext]

\* truthiness of an identifier: None (and only None, among the values the
\* context can hold) is falsy
Truthy(v) == v # None
\* Python's `a or b`
Or(a, b) == IF Truthy(a) THEN a ELSE b

(* ------------------------------------------------------------------ *)
(* Events and storage                                                 *)
(* ------------------------------------------------------------------ *)
NoData == [keys |-> {}, args |-> "", result |-> NoResult,
           error |-> "", error_type |-> "", event_name |-> ""]

\* TraceEvent(...): `call` is not a field of the program's event, it labels
\* the invocation whose wrapper saved the event (history only).
TraceEvent(tr, ex, par, agent, method, type, data, call) ==
  [key |-> None, trace_id |-> tr, execution_id |-> ex, parent_id |-> par,
   agent_name |-> agent, method_name |-> method, event_type |-> type,
   timestamp |-> clock, data |-> data, call |-> call]

\* a store that keeps one event for each trace
save_trace_event_per_trace(evs, ev, id) ==
  Append(SelectSeq(evs, LAMBDA e : e.trace_id # ev.trace_id),
         [ev EXCEPT !.key = id])

\* a store that puts the newest event first
save_trace_event_first(evs, ev, id) == <<[ev EXCEPT !.key = id]>> \o evs

\* InMemoryTraceStorage.save_trace_event: a fresh uuid4 key, then insert
save_trace_event(evs, ev, id) == Append(evs, [ev EXCEPT !.key = id])

\* Artifact(...) draws its own id from uuid4; save_artifact stores it
save_artifact(arts, tr, ex, name, id) ==
  Append(arts, [id |-> id, trace_id |-> tr, execution_id |-> ex,
                name |-> name, artifact_type |-> "data"])

(* ------------------------------------------------------------------ *)
(* Open invocations                                                   *)
(* ------------------------------------------------------------------ *)
Top(t) == stack[t][Len(stack[t])]
Depth(t) == Len(stack[t])
SetTop(t, fr) == [stack EXCEPT ![t][Len(stack[t])] = fr]
Pop(t) == SubSeq(stack[t], 1, Len(stack[t]) - 1)

\* `before` is the ambient context the thread had when the invocation began
\* (history only; the code keeps previous_trace_id / previous_parent_id)
Frame(kind, op, impl, inst, arg, call, tr, ex, par, agent, ptr, ppar, before) ==
  [kind |-> kind, before |-> before, op |-> op, impl |-> impl, inst |-> inst, arg |-> arg,
   call |-> call, trace_id |-> tr, execution_id |-> ex, parent_id |-> par,
   agent_name |-> agent, previous_trace_id |-> ptr,
   previous_parent_id |-> ppar, pc |-> "start", ran |-> <<>>,
   result |-> NoResult, exc |-> NoExc, bodyExc |-> NoExc, layer |-> 1]

\* `_trace_storage = None`: no storage object yet
NoStorage == [type |-> "", id |-> None, events |-> 0]
\* configure_tracing has not been called
NotConfigured == [storage_type |-> "", raised |-> "", before |-> NoStorage]
\* the viewer has not been asked anything
NoView == [op |-> ""]
\* what a thread's own TraceContext calls have left: nothing yet
NotWritten == [trace_id |-> None, parent_id |-> None, cleared |-> FALSE]
NoExit == [valid |-> FALSE, call |-> 0, kind |-> "", op |-> "", impl |-> "",
           arg |-> "", ran |-> <<>>, result |-> NoResult,
           returned |-> NoResult, exc |-> NoExc, bodyExc |-> NoExc,
           before |-> EmptyContext, after |-> EmptyContext]

\* The programs under trace.  A program is a set of threads of user code,
\* the instrumented operations that code uses, the arguments and results
\* it passes around and the number of invocations it makes.
AnyMode == [threads |-> {1}, ops |-> {"f", "s", "Agent", "Worker", "Store"},
            args |-> {"x"}, results |-> Results, calls |-> MaxCalls,
            instances |-> MaxInst, names |-> AllNames,
            new |-> "anywhere", faults |-> MaxFaults]
Chains == [threads |-> {1}, ops |-> {"f", "h", "s"},
           args |-> {"x"}, results |-> {1}, calls |-> MaxChain,
           instances |-> MaxInst, names |-> AllNames,
           new |-> "anywhere", faults |-> MaxFaults]
TwoThreads == [threads |-> Threads, ops |-> {"f"},
               args |-> {"x"}, results |-> {1}, calls |-> MaxCallsConc,
               instances |-> MaxInst, names |-> AllNames,
               new |-> "anywhere", faults |-> MaxFaults]

\* a program that builds instances from a class hierarchy and calls their
\* methods, wrapped or not, and an @traced function
Wrapping == [threads |-> {1}, ops |-> {"f", "Base", "Derived"},
             args |-> {"x"}, results |-> {1}, calls |-> MaxWrapCalls,
             instances |-> MaxHierInst,
             names |-> {"_hidden", "alpha", "quiet", "zeta"},
             new |-> "first", faults |-> 0]

\* a program of functions decorated in different ways and of instances of
\* a class that switches the recording of parameters and results off
Options == [threads |-> {1}, ops |-> {"f", "d", "q", "Mute"},
            args |-> Args, results |-> Results, calls |-> MaxCalls,
            instances |-> MaxHierInst, names |-> {"alpha", "zeta"},
            new |-> "first", faults |-> MaxFaults]

\* a program of one @traced function that calls itself, timed by a clock
\* that advances while it runs
Timed == [threads |-> {1}, ops |-> {"f"}, args |-> {"x"}, results |-> {1},
          calls |-> MaxChain, instances |-> 0, names |-> {},
          new |-> "first", faults |-> MaxFaults]

\* a program that calls one storage backend directly
Backends == {"memory", "sqlite"}
AllBackends == Backends \cup {"mongodb"}
StorageOnly(b) ==
  [threads |-> {1}, ops |-> {}, args |-> {}, results |-> {}, calls |-> 0,
   instances |-> 0, names |-> {}, new |-> "first", faults |-> 0,
   backend |-> b]

\* a database the viewer rebuilds traces from: rows of two traces and two
\* executions, with no parent, with execution 1 as parent and with a parent
\* that has no row
ViewTraceIds == 1..2
ViewExecIds == 1..2
ViewParents == {None, 1, 3}
TreeView == [threads |-> {1}, ops |-> {}, args |-> {}, results |-> {},
             calls |-> 0, instances |-> 0, names |-> {},
             new |-> "first", faults |-> 0, rows |-> MaxViewRows,
             traces |-> ViewTraceIds, execs |-> ViewExecIds,
             parents |-> ViewParents, types |-> {"start", "end"},
             times |-> 1..MaxViewTime]

\* a database the viewer lists: start events of up to three traces
ListTraceIds == 1..MaxListTraces
ListView == [threads |-> {1}, ops |-> {}, args |-> {}, results |-> {},
             calls |-> 0, instances |-> 0, names |-> {},
             new |-> "first", faults |-> 0, rows |-> MaxListRows,
             traces |-> ListTraceIds, execs |-> ViewExecIds,
             parents |-> {None}, types |-> {"start"},
             times |-> 1..MaxListTime]

\* an Execution object built from any list of events, none included, whose
\* properties are read
OneExecution == [threads |-> {1}, ops |-> {}, args |-> {}, results |-> {},
                 calls |-> 0, instances |-> 0, names |-> {"alpha", "zeta"},
                 new |-> "first", faults |-> 0, rows |-> MaxExecEvents,
                 times |-> 1..MaxExecTime]

\* threads that write events of two traces to one InMemoryTraceStorage
Writers == [threads |-> Threads, ops |-> {}, args |-> {}, results |-> {},
            calls |-> 0, instances |-> 0, names |-> {},
            new |-> "first", faults |-> 0, backend |-> "memory",
            saves |-> MaxMemSaves, traces |-> 1..MaxStoreTrace]

\* a program that configures the storage and lets wrappers write to it
Configuring == [threads |-> {1}, ops |-> {}, args |-> {}, results |-> {},
                calls |-> 0, instances |-> 0, names |-> {},
                new |-> "first", faults |-> 0]

\* a program of one @traced function that calls itself and whose body may be
\* interrupted
Interrupted == [threads |-> {1}, ops |-> {"f"}, args |-> {"x"},
                results |-> {1}, calls |-> MaxChain, instances |-> 0,
                names |-> {}, new |-> "first", faults |-> MaxFaults]

\* a program that sets the ambient ids itself and uses the three binding
\* modes with and without explicit ids
ExplicitIds == [threads |-> {1}, ops |-> {"f", "h", "s", "x", "Worker", "Pinned"},
                args |-> {"x"}, results |-> {1}, calls |-> MaxIdCalls,
                instances |-> MaxInst, names |-> {"alpha"},
                new |-> "first", faults |-> 0]

\* two threads of user code that use the TraceContext directly
ContextOnly == [threads |-> Threads, ops |-> {}, args |-> {}, results |-> {},
                calls |-> 0, instances |-> 0, names |-> {},
                new |-> "first", faults |-> 0]

\* user code is running on thread t: top-level code, the body of a traced
\* function or method, or the region of a span
UserCode(t) ==
  /\ t \in program.threads
  /\ IF stack[t] = <<>> THEN TRUE
     ELSE Top(t).pc = "body" /\ Top(t).impl \notin Helpers

CanCall(t) ==
  /\ UserCode(t)
  /\ Len(calls) < program.calls
  /\ Depth(t) < MaxDepth

\* the innermost open instrumented invocation of thread t (0: none);
\* operations that are not instrumented are passed over
CallerOf(t) ==
  LET open == {k \in 1..Len(stack[t]) : stack[t][k].kind # "plain"}
  IN  IF open = {} THEN 0
      ELSE stack[t][CHOOSE k \in open : \A j \in open : j <= k].call
\* the operation that is not instrumented and made the call ("": none)
Through(t) ==
  IF stack[t] # <<>> /\ Top(t).kind = "plain" THEN Top(t).op ELSE ""

CallRecord(t, fr) ==
  [thread |-> t, kind |-> fr.kind, op |-> fr.op, inst |-> fr.inst,
   layer |-> fr.layer, done |-> FALSE, exc |-> NoExc,
   caller |-> CallerOf(t), through |-> Through(t), depth |-> Depth(t) + 1,
   trace_id |-> fr.trace_id, execution_id |-> fr.execution_id,
   parent_id |-> fr.parent_id, before |-> fr.before]


(* ------------------------------------------------------------------ *)
(* Traced._wrap_methods                                               *)
(* ------------------------------------------------------------------ *)
\* an entry of a class's attribute table: `own` says the name is found
\* without going to a Traced subclass further up the resolution order
Unwrapped(n) == [traced |-> FALSE, target |-> n, own |-> TRUE]
Inherited(n) == [traced |-> FALSE, target |-> n, own |-> FALSE]
\* getattr(cls, n): the class's own attribute, else the parent's
getattr(a, c, n) == IF a[c][n].own THEN a[c][n] ELSE a[Parent(c)][n]
IndexOf(n) == CHOOSE i \in 1..Len(DirOrder) : DirOrder[i] = n

\* the names the loop wraps: public, not excluded, a function or method
\* that does not carry the _traced marker yet
Wrappable(c, a) ==
  {n \in DirNames(c) :
     /\ ~StartsWithUnderscore(n)
     /\ n \notin TRACED_EXCLUDE(c)
     /\ ~getattr(a, c, n).traced
     /\ ~HasNotTraced(n)}

\* The wrappers created by one run of the loop all close over the loop
\* variable original_method; when a wrapper is called later the variable
\* holds the method the loop assigned last.
ClosureTarget(c, a, n) ==
  LET last == CHOOSE m \in Wrappable(c, a) :
                \A k \in Wrappable(c, a) : IndexOf(k) <= IndexOf(m)
  IN  getattr(a, c, last).target

\* setattr(self.__class__, attr_name, traced_method) for every wrapped name
_wrap_methods(c, a) ==
  [n \in DOMAIN a[c] |->
     IF n \in Wrappable(c, a)
       THEN [traced |-> TRUE, target |-> ClosureTarget(c, a, n),
             own |-> TRUE]
       ELSE a[c][n]]

(* ------------------------------------------------------------------ *)
(* Initial state                                                      *)
(* ------------------------------------------------------------------ *)
InitCommon ==
  /\ ctx = [t \in Threads |-> EmptyContext]
  /\ stack = [t \in Threads |-> <<>>]
  /\ events = <<>>
  /\ artifacts = <<>>
  /\ nextId = 1
  /\ instances = <<>>
  /\ attrs = [c \in Classes |->
               [n \in DirNames(c) |->
                  IF Parent(c) \in Classes THEN Inherited(n)
                  ELSE Unwrapped(n)]]
  /\ faults = 0
  /\ calls = <<>>
  /\ exited = [t \in Threads |-> NoExit]
  /\ written = [t \in Threads |-> NotWritten]
  /\ clock = 1
  /\ saved = <<>>
  /\ _trace_storage = NoStorage
  /\ configured = NotConfigured
  /\ view = NoView

Init == InitCommon /\ program \in {AnyMode, Chains}
InitConc == InitCommon /\ program = TwoThreads
InitCtx == InitCommon /\ program = ContextOnly
InitWrap == InitCommon /\ program = Wrapping
InitOpt == InitCommon /\ program = Options
InitTimed == InitCommon /\ program = Timed
InitStore == InitCommon /\ program \in {StorageOnly(b) : b \in Backends}
InitConf == InitCommon /\ program = Configuring
InitView == InitCommon /\ program = TreeView
InitList == InitCommon /\ program = ListView
InitExec == InitCommon /\ program = OneExecution
InitIds == InitCommon /\ program = ExplicitIds
InitAbort == InitCommon /\ program = Interrupted
InitMem == InitCommon /\ program = Writers
InitBackend ==
  InitCommon /\ program \in {StorageOnly(b) : b \in AllBackends}

(* ------------------------------------------------------------------ *)
(* Entering an instrumented operation                                 *)
(* ------------------------------------------------------------------ *)
\* traced.wrapped, up to the try: resolve the ids, save the previous
\* context, make this call the ambient parent
wrapped(t, fn, arg, layer) ==
  /\ LET current_trace_id == get_current_trace_id(ctx, t)
         current_parent_id == get_current_parent_id(ctx, t)
         fresh == ~Truthy(Or(FnTraceId(fn), current_trace_id))
         trace == IF fresh THEN nextId
                  ELSE Or(FnTraceId(fn), current_trace_id)
         execution == IF fresh THEN nextId + 1 ELSE nextId
         parent == Or(FnParentId(fn), current_parent_id)
         fr == [Frame("fn", fn, fn, 0, arg, Len(calls) + 1, trace, execution,
                      parent, fn, current_trace_id, current_parent_id,
                      ctx[Local(t)]) EXCEPT !.layer = layer]
     IN  /\ stack' = [stack EXCEPT ![t] = Append(@, fr)]
         /\ ctx' = set_current_parent_id(
                     set_current_trace_id(ctx, t, trace), t, execution)
         /\ nextId' = execution + 1
         /\ calls' = Append(calls, CallRecord(t, fr))
  /\ UNCHANGED <<events, artifacts, instances, attrs, faults, aux, program, exited,
                 more>>

\* user code calls the @traced function fn
CallFunction(t, fn, arg) ==
  /\ UserCode(t)
  /\ Len(calls) + Layers(fn) <= program.calls
  /\ Depth(t) + Layers(fn) <= MaxDepth
  /\ fn \in program.ops /\ arg \in program.args
  /\ wrapped(t, fn, arg, 1)

\* the function a wrapper calls is itself a wrapper made by traced: the
\* inner layer starts with the same arguments
CallInner(t) ==
  /\ t \in program.threads /\ stack[t] # <<>> /\ Top(t).pc = "inner"
  /\ wrapped(t, Top(t).op, Top(t).arg, Top(t).layer + 1)

\* `with span(name):` TracedSpan.__init__ resolves the ids and keeps the
\* context it saw, __enter__ then makes the span the ambient parent
EnterSpan(t, name) ==
  /\ CanCall(t)
  /\ name \in program.ops
  /\ LET current_trace_id == get_current_trace_id(ctx, t)
         current_parent_id == get_current_parent_id(ctx, t)
         fresh == ~Truthy(Or(SpanTraceId(name), current_trace_id))
         trace == IF fresh THEN nextId
                  ELSE Or(SpanTraceId(name), current_trace_id)
         execution == IF fresh THEN nextId + 1 ELSE nextId
         parent == Or(SpanParentId(name), current_parent_id)
         fr == Frame("span", name, name, 0, "", Len(calls) + 1, trace,
                     execution, parent, name, current_trace_id,
                     current_parent_id, ctx[Local(t)])
     IN  /\ stack' = [stack EXCEPT ![t] = Append(@, fr)]
         /\ ctx' = set_current_parent_id(
                     set_current_trace_id(ctx, t, trace), t, execution)
         /\ nextId' = execution + 1
         /\ calls' = Append(calls, CallRecord(t, fr))
  /\ UNCHANGED <<events, artifacts, instances, attrs, faults, aux, program, exited,
                 more>>

\* Traced.__init__ of a subclass instance: ids from the arguments or the
\* ambient context, then _wrap_methods on the class; `before` is the ambient
\* context the constructor saw (history only)
Construct(t, c) ==
  /\ UserCode(t)
  /\ c \in program.ops
  /\ Len(instances) < program.instances
  /\ program.new = "first" => stack[t] = <<>> /\ calls = <<>>
  /\ LET current_trace_id == get_current_trace_id(ctx, t)
         current_parent_id == get_current_parent_id(ctx, t)
         fresh == ~Truthy(Or(CtorTraceId(c), current_trace_id))
         trace == IF fresh THEN nextId
                  ELSE Or(CtorTraceId(c), current_trace_id)
         parent == IF CtorParentId(c) # None THEN CtorParentId(c)
                   ELSE IF current_trace_id # None /\ current_parent_id # None
                     THEN current_parent_id ELSE None
         execution == IF fresh THEN nextId + 1 ELSE nextId
     IN  /\ instances' = Append(instances,
              [class |-> c, name |-> c, trace_id |-> trace,
               parent_id |-> parent, execution_id |-> execution,
               before |-> ctx[Local(t)]])
         /\ nextId' = execution + 1
  /\ attrs' = [attrs EXCEPT ![c] = _wrap_methods(c, attrs)]
  /\ UNCHANGED <<ctx, stack, events, artifacts, faults, aux, program, calls, exited,
                 more>>

\* traced_method, up to the try: the instance's ids become the ambient ones
CallMethod(t, i, n, arg) ==
  /\ CanCall(t)
  /\ arg \in program.args
  /\ i \in 1..Len(instances)
  /\ n \in Callable(instances[i].class) \cap program.names
  /\ getattr(attrs, instances[i].class, n).traced
  /\ LET self == instances[i]
         fr == Frame("method", n, getattr(attrs, self.class, n).target, i, arg,
                     Len(calls) + 1, self.trace_id, self.execution_id,
                     self.parent_id, self.name,
                     get_current_trace_id(ctx, t),
                     get_current_parent_id(ctx, t), ctx[Local(t)])
     IN  /\ stack' = [stack EXCEPT ![t] = Append(@, fr)]
         /\ ctx' = set_current_parent_id(
                     set_current_trace_id(ctx, t, self.trace_id), t,
                     self.execution_id)
         /\ calls' = Append(calls, CallRecord(t, fr))
  /\ UNCHANGED <<events, artifacts, nextId, instances, attrs, faults, aux, program,
                 exited, more>>


(* ------------------------------------------------------------------ *)
(* The events each binding mode builds                                *)
(* ------------------------------------------------------------------ *)
\* the object whose fields a method wrapper stamps on its events
Self(fr) == instances[fr.inst]

\* a wrapper that puts the arguments in the start data whatever the flag
RecordsParamsAlways(fr) == TRUE

\* `if record_params:` of the function wrapper, `if
\* self.TRACED_RECORD_PARAMS:` of the method wrapper
RecordsParams(fr) ==
  IF fr.kind = "fn" THEN record_params(fr.op)
  ELSE TRACED_RECORD_PARAMS(Self(fr).class)

\* `if record_results:` of the function wrapper, `if
\* self.TRACED_RECORD_RESULTS:` of the method wrapper
RecordsResults(fr) ==
  IF fr.kind = "fn" THEN record_results(fr.op)
  ELSE TRACED_RECORD_RESULTS(Self(fr).class)

\* start_data / the data of _start_trace
StartData(fr) ==
  IF RecordsParams(fr)
    THEN [NoData EXCEPT !.keys = {"args", "kwargs"}, !.args = fr.arg]
    ELSE NoData

\* a start event that names the execution itself as its parent
StartEventOwnParent(fr) ==
  CASE fr.kind = "fn" ->
         TraceEvent(fr.trace_id, fr.execution_id, fr.execution_id,
                    fr.agent_name, "function", "start", StartData(fr), fr.call)
    [] fr.kind = "method" ->
         TraceEvent(Self(fr).trace_id, Self(fr).execution_id,
                    Self(fr).parent_id, Self(fr).name, fr.impl, "start",
                    StartData(fr), fr.call)
    [] OTHER ->
         TraceEvent(fr.trace_id, fr.execution_id, fr.execution_id,
                    fr.agent_name, "span", "start",
                    [NoData EXCEPT !.keys = {"attributes"}], fr.call)

\* traced.wrapped: start_event; Traced._start_trace; TracedSpan.__enter__
StartEvent(fr) ==
  CASE fr.kind = "fn" ->
         TraceEvent(fr.trace_id, fr.execution_id, fr.parent_id, fr.agent_name,
                    "function", "start", StartData(fr), fr.call)
    [] fr.kind = "method" ->
         TraceEvent(Self(fr).trace_id, Self(fr).execution_id,
                    Self(fr).parent_id, Self(fr).name, fr.impl, "start",
                    StartData(fr), fr.call)
    [] OTHER ->
         TraceEvent(fr.trace_id, fr.execution_id, fr.parent_id, fr.agent_name,
                    "span", "start",
                    [NoData EXCEPT !.keys = {"attributes"}], fr.call)

\* an _end_trace that tests `if result:` and so leaves out every falsy result
EndEventIfTruthy(fr) ==
  CASE fr.kind = "fn" ->
         TraceEvent(fr.trace_id, fr.execution_id, fr.parent_id, fr.agent_name,
                    "function", "end",
                    IF RecordsResults(fr)
                      THEN [NoData EXCEPT !.keys = {"result"},
                                          !.result = fr.result]
                      ELSE NoData, fr.call)
    [] OTHER ->
         TraceEvent(Self(fr).trace_id, Self(fr).execution_id,
                    Self(fr).parent_id, Self(fr).name, fr.impl, "end",
                    IF RecordsResults(fr) /\ fr.result \notin {NoResult, 0}
                      THEN [NoData EXCEPT !.keys = {"result"},
                                          !.result = fr.result]
                      ELSE NoData, fr.call)

\* traced.wrapped: end_event; Traced._end_trace(name, result=result)
EndEvent(fr) ==
  CASE fr.kind = "fn" ->
         TraceEvent(fr.trace_id, fr.execution_id, fr.parent_id, fr.agent_name,
                    "function", "end",
                    IF RecordsResults(fr)
                      THEN [NoData EXCEPT !.keys = {"result"},
                                          !.result = fr.result]
                      ELSE NoData, fr.call)
    [] OTHER ->
         TraceEvent(Self(fr).trace_id, Self(fr).execution_id,
                    Self(fr).parent_id, Self(fr).name, fr.impl, "end",
                    IF RecordsResults(fr) /\ fr.result # NoResult
                      THEN [NoData EXCEPT !.keys = {"result"},
                                          !.result = fr.result]
                      ELSE NoData, fr.call)

ErrorData(e) ==
  [NoData EXCEPT !.keys = {"error", "error_type"}, !.error = e.msg,
                 !.error_type = e.type]

\* the terminal event of a failed call stamped with the ambient parent the
\* wrapper saw on entry instead of the parent resolved for the call
ErrorEventAmbientParent(fr) ==
  TraceEvent(fr.trace_id, fr.execution_id, fr.previous_parent_id,
             fr.agent_name, IF fr.kind = "fn" THEN "function" ELSE fr.impl,
             IF fr.kind = "fn" THEN "error" ELSE "end", ErrorData(fr.exc),
             fr.call)

\* traced.wrapped: error_event; Traced._end_trace(name, error=e)
ErrorEvent(fr) ==
  CASE fr.kind = "fn" ->
         TraceEvent(fr.trace_id, fr.execution_id, fr.parent_id, fr.agent_name,
                    "function", "error", ErrorData(fr.exc), fr.call)
    [] OTHER ->
         TraceEvent(Self(fr).trace_id, Self(fr).execution_id,
                    Self(fr).parent_id, Self(fr).name, fr.impl, "end",
                    ErrorData(fr.exc), fr.call)

\* an __exit__ that ignores exc_type: the end event never has error keys
SpanEndEventPlain(fr) ==
  TraceEvent(fr.trace_id, fr.execution_id, fr.parent_id, fr.agent_name,
             "span", "end", NoData, fr.call)

\* TracedSpan.__exit__: end_event, with the error keys when the region raised
SpanEndEvent(fr) ==
  TraceEvent(fr.trace_id, fr.execution_id, fr.parent_id, fr.agent_name,
             "span", "end",
             IF fr.exc # NoExc THEN ErrorData(fr.exc) ELSE NoData, fr.call)

\* Traced.trace_event(event_type, data), called with the caller's first
\* argument as event_type
CustomEvent(fr) ==
  TraceEvent(Self(fr).trace_id, Self(fr).execution_id, Self(fr).parent_id,
             Self(fr).name, "custom", fr.arg, NoData, fr.call)

\* TracedSpan.add_event(name)
SpanEvent(fr, name) ==
  TraceEvent(fr.trace_id, fr.execution_id, fr.parent_id, fr.agent_name,
             "event", name,
             [NoData EXCEPT !.keys = {"event_name"}, !.event_name = name],
             fr.call)

(* ------------------------------------------------------------------ *)
(* Leaving an instrumented operation                                  *)
(* ------------------------------------------------------------------ *)
\* the finally clause of both wrappers and the tail of __exit__: each
\* previous value is written back only if it is truthy
Restore(c, t, fr) ==
  LET c1 == IF Truthy(fr.previous_trace_id)
              THEN set_current_trace_id(c, t, fr.previous_trace_id) ELSE c
  IN  IF Truthy(fr.previous_parent_id)
        THEN set_current_parent_id(c1, t, fr.previous_parent_id) ELSE c1

\* what the wrapper hands to its caller on the normal path: `return result`
Returned(fr) == fr.result

\* __exit__ returning a true value: the region's exception is suppressed
PropagatedUnlessSpan(fr) == IF fr.kind = "span" THEN NoExc ELSE fr.exc

\* what leaves the wrapper when an exception is in flight: the bare `raise`
\* of the except clause, and __exit__ returning None (no suppression)
Propagated(fr) == fr.exc

ExitRecord(fr, c, t) ==
  [valid |-> TRUE, call |-> fr.call, kind |-> fr.kind, op |-> fr.op,
   impl |-> fr.impl, arg |-> fr.arg, ran |-> fr.ran, result |-> fr.result,
   returned |-> IF fr.exc = NoExc THEN Returned(fr) ELSE NoResult,
   exc |-> Propagated(fr), bodyExc |-> fr.bodyExc, before |-> fr.before,
   after |-> c[Local(t)]]

\* where an exception raised in the body of an open invocation goes: the
\* except clause of a function or method wrapper, __exit__ of a span, and
\* straight out of an operation that is not instrumented
Handler(kind) ==
  CASE kind = "span" -> "exit"
    [] kind = "plain" -> "raise"
    [] OTHER -> "except"

\* `except Exception as e` of the function and method wrappers: an exception
\* that does not derive from Exception passes the clause and only the
\* finally clause runs
HandlerOf(kind, e) ==
  IF kind \in {"fn", "method"} /\ e = KeyboardInterrupt THEN "finally"
  ELSE Handler(kind)

\* the invocation on top is the inner layer an outer wrapper is waiting for
Awaited(t) == Depth(t) > 1 /\ stack[t][Depth(t) - 1].pc = "inner"

\* the frame leaves the stack; an exception reaches the enclosing user code,
\* which handles it or lets it escape its own body
Unwind(t, e, handle) ==
  LET rest == Pop(t)
  IN  IF Awaited(t) /\ e = NoExc
        THEN [rest EXCEPT ![Len(rest)] =
                [@ EXCEPT !.pc = "end", !.result = Returned(Top(t))]]
      ELSE IF e = NoExc \/ rest = <<>> \/ handle
        THEN rest
        ELSE [rest EXCEPT ![Len(rest)] =
                [@ EXCEPT !.exc = e, !.bodyExc = e,
                          !.pc = HandlerOf(rest[Len(rest)].kind, e)]]

CanEscape(t, e) == e # NoExc /\ Depth(t) > 1

Leave(t, fr, c, handle) ==
  /\ IF Awaited(t) THEN handle = (Propagated(fr) = NoExc)
     ELSE handle \/ CanEscape(t, Propagated(fr))
  /\ ctx' = c
  /\ exited' = [exited EXCEPT ![t] = ExitRecord(fr, c, t)]
  /\ calls' = [calls EXCEPT ![fr.call].done = TRUE,
                            ![fr.call].exc = Propagated(fr)]
  /\ stack' = [stack EXCEPT ![t] = Unwind(t, Propagated(fr), handle)]


(* ------------------------------------------------------------------ *)
(* Storage writes                                                     *)
(* ------------------------------------------------------------------ *)
\* storage.save_trace_event(ev) returns
Saved(ev) ==
  /\ events' = save_trace_event(events, ev, nextId)
  /\ nextId' = nextId + 1
  /\ faults' = faults

\* storage.save_trace_event(ev) raises (a backend I/O error)
SaveFailed ==
  /\ faults < program.faults
  /\ faults' = faults + 1
  /\ UNCHANGED <<events, nextId>>

(* ------------------------------------------------------------------ *)
(* Steps of an open invocation                                        *)
(* ------------------------------------------------------------------ *)
\* the original implementation is called with the caller's arguments; a
\* call that does not fit its signature raises TypeError before it runs
Invoke(fr) ==
  IF fr.kind = "fn" /\ fr.layer < Layers(fr.op)
    THEN [fr EXCEPT !.pc = "inner"]
  ELSE IF Accepts(fr.impl, NArgs(fr.op))
    THEN [fr EXCEPT !.pc = "body",
                    !.ran = Append(@, [impl |-> fr.impl, arg |-> fr.arg])]
    ELSE [fr EXCEPT !.pc = "except", !.exc = TypeError,
                    !.bodyExc = TypeError]

\* the start event is saved, then the wrapped operation is called (function
\* and method wrappers) or the region begins (span)
SaveStart(t, handle) ==
  /\ t \in program.threads /\ stack[t] # <<>> /\ Top(t).pc = "start"
  /\ LET fr == Top(t)
     IN  \/ /\ Saved(StartEvent(fr))
            /\ handle
            /\ stack' = SetTop(t, IF fr.kind = "span"
                                    THEN [fr EXCEPT !.pc = "body"]
                                    ELSE Invoke(fr))
            /\ UNCHANGED <<ctx, exited, calls>>
         \/ /\ SaveFailed
            /\ fr.kind # "span"
            /\ handle
            /\ stack' = SetTop(t, [fr EXCEPT !.pc = "except",
                                             !.exc = StorageError])
            /\ UNCHANGED <<ctx, exited, calls>>
         \/ \* __enter__ raises: the with statement never calls __exit__
            /\ SaveFailed
            /\ fr.kind = "span"
            /\ Leave(t, [fr EXCEPT !.exc = StorageError], ctx, handle)
  /\ UNCHANGED <<artifacts, instances, attrs, aux, program, more>>

\* the body of a traced function or method returns v
Return(t, v) ==
  /\ UserCode(t) /\ stack[t] # <<>> /\ Top(t).kind \in {"fn", "method"}
  /\ v \in program.results
  /\ stack' = SetTop(t, [Top(t) EXCEPT !.pc = "end", !.result = v])
  /\ UNCHANGED <<ctx, events, artifacts, nextId, instances, attrs, faults,
                 aux, program, calls, exited, more>>

\* the region of a span runs to its end
EndRegion(t) ==
  /\ UserCode(t) /\ stack[t] # <<>> /\ Top(t).kind = "span"
  /\ stack' = SetTop(t, [Top(t) EXCEPT !.pc = "exit"])
  /\ UNCHANGED <<ctx, events, artifacts, nextId, instances, attrs, faults,
                 aux, program, calls, exited, more>>

\* the body or region raises e
Raise(t, e) ==
  /\ UserCode(t) /\ stack[t] # <<>>
  /\ stack' = SetTop(t, [Top(t) EXCEPT
                           !.pc = Handler(Top(t).kind),
                           !.exc = e, !.bodyExc = e])
  /\ UNCHANGED <<ctx, events, artifacts, nextId, instances, attrs, faults,
                 aux, program, calls, exited, more>>

\* the original Traced.trace_event runs as the wrapped operation
RunTraceEvent(t) ==
  /\ t \in program.threads /\ stack[t] # <<>>
  /\ Top(t).pc = "body" /\ Top(t).impl = "trace_event"
  /\ \/ /\ Saved(CustomEvent(Top(t)))
        /\ stack' = SetTop(t, [Top(t) EXCEPT !.pc = "end",
                                             !.result = NoResult])
     \/ /\ SaveFailed
        /\ stack' = SetTop(t, [Top(t) EXCEPT !.pc = "except",
                                 !.exc = StorageError,
                                 !.bodyExc = StorageError])
  /\ UNCHANGED <<ctx, artifacts, instances, attrs, aux, program, calls, exited,
                 more>>

\* the original Traced.save_artifact runs as the wrapped operation
RunSaveArtifact(t) ==
  /\ t \in program.threads /\ stack[t] # <<>>
  /\ Top(t).pc = "body" /\ Top(t).impl = "save_artifact"
  /\ nextId' = nextId + 1
  /\ \/ /\ artifacts' = save_artifact(artifacts, Self(Top(t)).trace_id,
                                      Self(Top(t)).execution_id, Top(t).arg,
                                      nextId)
        /\ stack' = SetTop(t, [Top(t) EXCEPT !.pc = "end",
                                             !.result = nextId])
        /\ UNCHANGED faults
     \/ /\ faults < program.faults
        /\ faults' = faults + 1
        /\ stack' = SetTop(t, [Top(t) EXCEPT !.pc = "except",
                                 !.exc = StorageError,
                                 !.bodyExc = StorageError])
        /\ UNCHANGED artifacts
  /\ UNCHANGED <<ctx, events, instances, attrs, aux, program, calls, exited,
                 more>>

\* user code in the region of a span calls span.add_event(name)
AddEvent(t, name) ==
  /\ UserCode(t) /\ stack[t] # <<>> /\ Top(t).kind = "span"
  /\ name \in program.args
  /\ Len(events) < 2 * program.calls
  /\ \/ /\ Saved(SpanEvent(Top(t), name))
        /\ UNCHANGED stack
     \/ /\ SaveFailed
        /\ stack' = SetTop(t, [Top(t) EXCEPT !.pc = "exit",
                                 !.exc = StorageError,
                                 !.bodyExc = StorageError])
  /\ UNCHANGED <<ctx, artifacts, instances, attrs, aux, program, calls, exited,
                 more>>

\* user code calls instance.trace_event(name, data) on a class that leaves
\* trace_event unwrapped: the event is saved by the helper itself, and a
\* failed write raises into the calling user code
TraceEventDirect(t, i, name) ==
  /\ UserCode(t)
  /\ name \in program.args
  /\ i \in 1..Len(instances)
  /\ ~getattr(attrs, instances[i].class, "trace_event").traced
  /\ Len(events) < 2 * program.calls
  /\ LET self == instances[i]
     IN  \/ /\ Saved(TraceEvent(self.trace_id, self.execution_id,
                               self.parent_id, self.name, "custom", name,
                               NoData, 0))
            /\ UNCHANGED stack
         \/ /\ SaveFailed
            /\ stack' = IF stack[t] = <<>> THEN stack
                        ELSE SetTop(t, [Top(t) EXCEPT
                               !.pc = Handler(Top(t).kind),
                               !.exc = StorageError,
                               !.bodyExc = StorageError])
  /\ UNCHANGED <<ctx, artifacts, instances, attrs, aux, program, calls, exited,
                 more>>

\* the wrapped operation returned: the end event is saved
SaveEnd(t) ==
  /\ t \in program.threads /\ stack[t] # <<>> /\ Top(t).pc = "end"
  /\ \/ /\ Saved(EndEvent(Top(t)))
        /\ stack' = SetTop(t, [Top(t) EXCEPT !.pc = "finally"])
     \/ /\ SaveFailed
        /\ stack' = SetTop(t, [Top(t) EXCEPT !.pc = "except",
                                             !.exc = StorageError])
  /\ UNCHANGED <<ctx, artifacts, instances, attrs, aux, program, calls, exited,
                 more>>

\* the except clause: the error is recorded and raised again; a write that
\* fails here replaces the exception in flight
SaveError(t) ==
  /\ t \in program.threads /\ stack[t] # <<>> /\ Top(t).pc = "except"
  /\ \/ /\ Saved(ErrorEvent(Top(t)))
        /\ stack' = SetTop(t, [Top(t) EXCEPT !.pc = "finally"])
     \/ /\ SaveFailed
        /\ stack' = SetTop(t, [Top(t) EXCEPT !.pc = "finally",
                                             !.exc = StorageError])
  /\ UNCHANGED <<ctx, artifacts, instances, attrs, aux, program, calls, exited,
                 more>>

\* the finally clause, then the wrapper returns or the exception leaves it
Finally(t, handle) ==
  /\ t \in program.threads /\ stack[t] # <<>> /\ Top(t).pc = "finally"
  /\ Leave(t, Top(t), Restore(ctx, t, Top(t)), handle)
  /\ UNCHANGED <<events, artifacts, nextId, instances, attrs, faults, aux,
                 program, more>>

\* TracedSpan.__exit__: the end event is saved, then the context restored;
\* a write that fails leaves __exit__ before the restore
SpanExit(t, handle) ==
  /\ t \in program.threads /\ stack[t] # <<>> /\ Top(t).pc = "exit"
  /\ \/ /\ Saved(SpanEndEvent(Top(t)))
        /\ Leave(t, Top(t), Restore(ctx, t, Top(t)), handle)
     \/ /\ SaveFailed
        /\ Leave(t, [Top(t) EXCEPT !.exc = StorageError], ctx, handle)
  /\ UNCHANGED <<artifacts, instances, attrs, aux, program, more>>

Next ==
  \/ \E t \in Threads, fn \in Funcs, a \in Args : CallFunction(t, fn, a)
  \/ \E t \in Threads, n \in SpanNames : EnterSpan(t, n)
  \/ \E t \in Threads, c \in Classes : Construct(t, c)
  \/ \E t \in Threads, i \in 1..MaxInst, n \in AllNames, a \in Args :
       CallMethod(t, i, n, a)
  \/ \E t \in Threads, h \in BOOLEAN : SaveStart(t, h)
  \/ \E t \in Threads, v \in Results : Return(t, v)
  \/ \E t \in Threads : EndRegion(t)
  \/ \E t \in Threads, e \in UserExcs : Raise(t, e)
  \/ \E t \in Threads : RunTraceEvent(t)
  \/ \E t \in Threads : RunSaveArtifact(t)
  \/ \E t \in Threads, n \in Args : AddEvent(t, n)
  \/ \E t \in Threads, i \in 1..MaxInst, n \in Args : TraceEventDirect(t, i, n)
  \/ \E t \in Threads : SaveEnd(t)
  \/ \E t \in Threads : SaveError(t)
  \/ \E t \in Threads, h \in BOOLEAN : Finally(t, h)
  \/ \E t \in Threads, h \in BOOLEAN : SpanExit(t, h)

\* two threads of user code that call @traced functions
NextConc ==
  \/ \E t \in Threads, fn \in Funcs, a \in Args : CallFunction(t, fn, a)
  \/ \E t \in Threads : SaveStart(t, TRUE)
  \/ \E t \in Threads, v \in Results : Return(t, v)
  \/ \E t \in Threads, e \in UserExcs : Raise(t, e)
  \/ \E t \in Threads : SaveEnd(t)
  \/ \E t \in Threads : SaveError(t)
  \/ \E t \in Threads, h \in BOOLEAN : Finally(t, h)

(* ------------------------------------------------------------------ *)
(* Operations that _wrap_methods left alone                           *)
(* ------------------------------------------------------------------ *)
\* user code calls a method of instance i whose class attribute is still
\* the original function: it runs with no wrapper around it
CallPlain(t, i, n, arg) ==
  /\ UserCode(t)
  /\ Depth(t) < MaxDepth
  /\ stack[t] # <<>> => Top(t).kind # "plain"
  /\ arg \in program.args
  /\ i \in 1..Len(instances)
  /\ n \in (Callable(instances[i].class) \cap program.names) \ Helpers
  /\ ~getattr(attrs, instances[i].class, n).traced
  /\ LET fr == Frame("plain", n, n, i, arg, 0, None, None, None, "", None,
                     None, ctx[Local(t)])
     IN  stack' = [stack EXCEPT ![t] =
                     Append(@, [fr EXCEPT !.pc = "body",
                                  !.ran = <<[impl |-> n, arg |-> arg]>>])]
  /\ UNCHANGED <<ctx, events, artifacts, nextId, instances, attrs, faults,
                 aux, program, calls, exited, more>>

\* the method returns to its caller
ReturnPlain(t) ==
  /\ UserCode(t) /\ stack[t] # <<>> /\ Top(t).kind = "plain"
  /\ stack' = [stack EXCEPT ![t] = Pop(t)]
  /\ UNCHANGED <<ctx, events, artifacts, nextId, instances, attrs, faults,
                 aux, program, calls, exited, more>>

\* an exception leaves the method; its caller handles it or not
RaisePlain(t, handle) ==
  /\ t \in program.threads /\ stack[t] # <<>>
  /\ Top(t).kind = "plain" /\ Top(t).pc = "raise"
  /\ handle \/ CanEscape(t, Top(t).exc)
  /\ stack' = [stack EXCEPT ![t] = Unwind(t, Top(t).exc, handle)]
  /\ UNCHANGED <<ctx, events, artifacts, nextId, instances, attrs, faults,
                 aux, program, calls, exited, more>>

\* a program over a class hierarchy
NextWrap ==
  \/ \E t \in Threads, fn \in Funcs, a \in Args : CallFunction(t, fn, a)
  \/ \E t \in Threads, c \in Classes : Construct(t, c)
  \/ \E t \in Threads, i \in 1..MaxHierInst, n \in AllNames, a \in Args :
       CallMethod(t, i, n, a)
  \/ \E t \in Threads, i \in 1..MaxHierInst, n \in AllNames, a \in Args :
       CallPlain(t, i, n, a)
  \/ \E t \in Threads, h \in BOOLEAN : SaveStart(t, h)
  \/ \E t \in Threads, v \in Results : Return(t, v)
  \/ \E t \in Threads : ReturnPlain(t)
  \/ \E t \in Threads, h \in BOOLEAN : RaisePlain(t, h)
  \/ \E t \in Threads : SaveEnd(t)
  \/ \E t \in Threads : SaveError(t)
  \/ \E t \in Threads, h \in BOOLEAN : Finally(t, h)

\* a program of functions and methods wrapped with different options
NextOpt ==
  \/ \E t \in Threads, fn \in Funcs, a \in Args : CallFunction(t, fn, a)
  \/ \E t \in Threads : CallInner(t)
  \/ \E t \in Threads, c \in Classes : Construct(t, c)
  \/ \E t \in Threads, i \in 1..MaxHierInst, n \in AllNames, a \in Args :
       CallMethod(t, i, n, a)
  \/ \E t \in Threads, h \in BOOLEAN : SaveStart(t, h)
  \/ \E t \in Threads, v \in Results : Return(t, v)
  \/ \E t \in Threads, e \in UserExcs : Raise(t, e)
  \/ \E t \in Threads : SaveEnd(t)
  \/ \E t \in Threads : SaveError(t)
  \/ \E t \in Threads, h \in BOOLEAN : Finally(t, h)

\* time passes: time.time() answers a later value from now on
Tick ==
  /\ clock < MaxClock
  /\ clock' = clock + 1
  /\ UNCHANGED <<ctx, stack, events, artifacts, nextId, instances, attrs,
                 faults, program, calls, exited, written, saved, more>>

\* a program of @traced functions while the clock runs
NextTimed ==
  \/ \E t \in Threads, fn \in Funcs, a \in Args : CallFunction(t, fn, a)
  \/ \E t \in Threads, h \in BOOLEAN : SaveStart(t, h)
  \/ \E t \in Threads, v \in Results : Return(t, v)
  \/ \E t \in Threads, e \in UserExcs : Raise(t, e)
  \/ \E t \in Threads : SaveEnd(t)
  \/ \E t \in Threads : SaveError(t)
  \/ \E t \in Threads, h \in BOOLEAN : Finally(t, h)
  \/ Tick

\* the body is interrupted: KeyboardInterrupt is raised in it
Interrupt(t) ==
  /\ UserCode(t) /\ stack[t] # <<>>
  /\ stack' = SetTop(t, [Top(t) EXCEPT
                           !.pc = HandlerOf(Top(t).kind, KeyboardInterrupt),
                           !.exc = KeyboardInterrupt,
                           !.bodyExc = KeyboardInterrupt])
  /\ UNCHANGED <<ctx, events, artifacts, nextId, instances, attrs, faults,
                 aux, program, calls, exited, more>>

\* a program of @traced functions whose bodies return, raise or are
\* interrupted
NextAbort ==
  \/ \E t \in Threads, fn \in Funcs, a \in Args : CallFunction(t, fn, a)
  \/ \E t \in Threads, h \in BOOLEAN : SaveStart(t, h)
  \/ \E t \in Threads, v \in Results : Return(t, v)
  \/ \E t \in Threads, e \in UserExcs : Raise(t, e)
  \/ \E t \in Threads : Interrupt(t)
  \/ \E t \in Threads : SaveEnd(t)
  \/ \E t \in Threads : SaveError(t)
  \/ \E t \in Threads, h \in BOOLEAN : Finally(t, h)

(* ------------------------------------------------------------------ *)
(* The storage backends, called directly                              *)
(* ------------------------------------------------------------------ *)
StoreTraceIds == 1..MaxStoreTrace

\* TraceEvent.to_dict(): the fields of the event, without a key
to_dict(e) == [f \in DOMAIN e \ {"key", "call"} |-> e[f]]
\* what get_trace hands out for a stored event: to_dict() of the kept
\* object (memory), the row with its id column (sqlite)
EventRow(b, e) ==
  IF b = "sqlite" THEN [f \in DOMAIN e \ {"call"} |-> e[f]] ELSE to_dict(e)

\* InMemoryTraceStorage.save_artifact: self.artifacts[artifact.id] = ...
MemorySaveArtifact(arts, a) ==
  IF \E i \in 1..Len(arts) : arts[i].id = a.id
    THEN [i \in 1..Len(arts) |-> IF arts[i].id = a.id THEN a ELSE arts[i]]
    ELSE Append(arts, a)
\* SQLiteTraceStorage.save_artifact: INSERT; a second row with the same
\* primary key is refused and the table is left as it was
SqliteAccepts(arts, a) == \A i \in 1..Len(arts) : arts[i].id # a.id
SqliteSaveArtifact(arts, a) ==
  IF SqliteAccepts(arts, a) THEN Append(arts, a) ELSE arts

\* a get_trace without the trace_id filter
get_trace_all(b, evs, arts, tr) ==
  [trace_id |-> tr,
   events |-> [i \in 1..Len(evs) |-> EventRow(b, evs[i])],
   artifacts |-> arts]

\* get_trace(trace_id): the events and artifacts whose trace_id matches
get_trace(b, evs, arts, tr) ==
  LET es == SelectSeq(evs, LAMBDA e : e.trace_id = tr)
  IN  [trace_id |-> tr,
       events |-> [i \in 1..Len(es) |-> EventRow(b, es[i])],
       artifacts |-> SelectSeq(arts, LAMBDA a : a.trace_id = tr)]

\* storage.save_trace_event(TraceEvent(...)) called by user code
SaveTraceEvent(tr, ex, type) ==
  /\ Len(saved) < MaxStored
  /\ Saved(TraceEvent(tr, ex, None, "agent", "method", type, NoData, 0))
  /\ saved' = Append(saved, [kind |-> "event", rec |-> events'[Len(events')]])
  /\ UNCHANGED <<ctx, stack, artifacts, instances, attrs, program, calls,
                 exited, written, clock, more>>

\* the backend's save_artifact applied to artifact object a
StoreArtifact(a) ==
  /\ artifacts' = IF program.backend = "memory"
                    THEN MemorySaveArtifact(artifacts, a)
                    ELSE SqliteSaveArtifact(artifacts, a)
  /\ saved' = IF program.backend = "memory" \/ SqliteAccepts(artifacts, a)
                THEN Append(saved, [kind |-> "artifact", rec |-> a])
                ELSE saved

\* storage.save_artifact(Artifact(...)) called by user code: a new object
SaveNewArtifact(tr, ex) ==
  /\ Len(saved) < MaxStored
  /\ StoreArtifact([id |-> nextId, trace_id |-> tr, execution_id |-> ex,
                    name |-> "a", artifact_type |-> "data"])
  /\ nextId' = nextId + 1
  /\ UNCHANGED <<ctx, stack, events, instances, attrs, faults, program,
                 calls, exited, written, clock, more>>

\* storage.save_artifact called again with an object saved before
SaveArtifactAgain(i) ==
  /\ Len(saved) < MaxStored
  /\ i \in 1..Len(artifacts)
  /\ StoreArtifact(artifacts[i])
  /\ UNCHANGED <<ctx, stack, events, nextId, instances, attrs, faults,
                 program, calls, exited, written, clock, more>>

NextStore ==
  \/ \E tr \in StoreTraceIds, ex \in StoreTraceIds,
        type \in {"start", "end"} : SaveTraceEvent(tr, ex, type)
  \/ \E tr \in StoreTraceIds, ex \in StoreTraceIds : SaveNewArtifact(tr, ex)
  \/ \E i \in 1..MaxStored : SaveArtifactAgain(i)

(* ------------------------------------------------------------------ *)
(* Direct use of the TraceContext by user code                        *)
(* ------------------------------------------------------------------ *)
CtxIds == 1..MaxCtxId

\* TraceContext.set_current_trace_id(v) called on thread t
SetCurrentTraceId(t, v) ==
  /\ UserCode(t)
  /\ ctx' = set_current_trace_id(ctx, t, v)
  /\ written' = [written EXCEPT ![t].trace_id = v, ![t].cleared = FALSE]
  /\ UNCHANGED <<stack, events, artifacts, nextId, instances, attrs, faults,
                 program, calls, exited, clock, saved, more>>

\* TraceContext.set_current_parent_id(v) called on thread t
SetCurrentParentId(t, v) ==
  /\ UserCode(t)
  /\ ctx' = set_current_parent_id(ctx, t, v)
  /\ written' = [written EXCEPT ![t].parent_id = v, ![t].cleared = FALSE]
  /\ UNCHANGED <<stack, events, artifacts, nextId, instances, attrs, faults,
                 program, calls, exited, clock, saved, more>>

\* TraceContext.clear() called on thread t
Clear(t) ==
  /\ UserCode(t)
  /\ ctx' = clear(ctx, t)
  /\ written' = [written EXCEPT ![t] = [NotWritten EXCEPT !.cleared = TRUE]]
  /\ UNCHANGED <<stack, events, artifacts, nextId, instances, attrs, faults,
                 program, calls, exited, clock, saved, more>>

NextCtx ==
  \/ \E t \in Threads, v \in CtxIds : SetCurrentTraceId(t, v)
  \/ \E t \in Threads, v \in CtxIds : SetCurrentParentId(t, v)
  \/ \E t \in Threads : Clear(t)

\* a program that stores ids in the TraceContext and passes explicit ids
NextIds ==
  \/ \E t \in Threads : SetCurrentTraceId(t, UserTraceId)
  \/ \E t \in Threads : SetCurrentParentId(t, UserParentId)
  \/ \E t \in Threads : Clear(t)
  \/ \E t \in Threads, fn \in Funcs, a \in Args : CallFunction(t, fn, a)
  \/ \E t \in Threads, n \in SpanNames : EnterSpan(t, n)
  \/ \E t \in Threads, c \in Classes : Construct(t, c)
  \/ \E t \in Threads, i \in 1..MaxInst, n \in AllNames, a \in Args :
       CallMethod(t, i, n, a)
  \/ \E t \in Threads : SaveStart(t, TRUE)
  \/ \E t \in Threads, v \in Results : Return(t, v)
  \/ \E t \in Threads : EndRegion(t)
  \/ \E t \in Threads : SaveEnd(t)
  \/ \E t \in Threads : SaveError(t)
  \/ \E t \in Threads, h \in BOOLEAN : Finally(t, h)
  \/ \E t \in Threads : SpanExit(t, TRUE)

(* ------------------------------------------------------------------ *)
(* Records with data on the three backends                            *)
(* ------------------------------------------------------------------ *)
\* A Python value as it can stand in the data of an event or the content
\* of an artifact: None, a bool, a number, a str, a list, a str-keyed dict
\* (its items in insertion order, each with its key k) or a tuple.
PyValue(t, n, str, items) ==
  [t |-> t, n |-> n, s |-> str, k |-> "", items |-> items]
Item(k, v) == [v EXCEPT !.k = k]
PyNone == PyValue("null", 0, "", <<>>)
PyTrue == PyValue("bool", 1, "", <<>>)
PyOne == PyValue("num", 1, "", <<>>)
PyStr == PyValue("str", 0, "a", <<>>)
PyList == PyValue("list", 0, "", <<PyOne, PyStr>>)
PyEmpty == PyValue("map", 0, "", <<>>)
PyDict == PyValue("map", 0, "", <<Item("args", PyList), Item("n", PyNone)>>)
\* start_data["args"] = args: the positional arguments are a tuple
PyTuple == PyValue("tuple", 0, "", <<PyOne>>)
PyArgs == PyValue("map", 0, "", <<Item("args", PyTuple)>>)
Contents == {PyNone, PyTrue, PyOne, PyStr, PyList, PyEmpty, PyDict, PyArgs}

RECURSIVE JsonCompatible(_)
\* string, number, boolean, null, ordered list, string-keyed map
JsonCompatible(v) ==
  /\ v.t # "tuple"
  /\ \A i \in 1..Len(v.items) : JsonCompatible(v.items[i])

\* one token of a JSON text
Token(tok, n, str) == [tok |-> tok, n |-> n, s |-> str]
Punct(tok) == Token(tok, 0, "")

RECURSIVE json_dumps(_)
RECURSIVE DumpItems(_, _, _)
\* json.dumps(v): the JSON text of v; a tuple is written as an array
json_dumps(v) ==
  CASE v.t = "null" -> <<Punct("null")>>
    [] v.t = "bool" -> <<Punct(IF v.n = 1 THEN "true" ELSE "false")>>
    [] v.t = "num" -> <<Token("num", v.n, "")>>
    [] v.t = "str" -> <<Token("str", 0, v.s)>>
    [] v.t = "map" ->
         <<Punct("{")>> \o DumpItems(v.items, 1, TRUE) \o <<Punct("}")>>
    [] OTHER ->
         <<Punct("[")>> \o DumpItems(v.items, 1, FALSE) \o <<Punct("]")>>
DumpItems(items, i, keyed) ==
  IF i > Len(items) THEN <<>>
  ELSE (IF i > 1 THEN <<Punct(",")>> ELSE <<>>)
       \o (IF keyed THEN <<Token("str", 0, items[i].k), Punct(":")>>
           ELSE <<>>)
       \o json_dumps(Item("", items[i]))
       \o DumpItems(items, i + 1, keyed)

RECURSIVE ParseValue(_, _)
RECURSIVE ParseItems(_, _, _, _)
\* the JSON decoder at token i of text: the value and where it ends
ParseValue(text, i) ==
  LET tok == text[i].tok
  IN  CASE tok = "null" -> [v |-> PyNone, next |-> i + 1]
        [] tok = "true" -> [v |-> PyTrue, next |-> i + 1]
        [] tok = "false" ->
             [v |-> PyValue("bool", 0, "", <<>>), next |-> i + 1]
        [] tok = "num" ->
             [v |-> PyValue("num", text[i].n, "", <<>>), next |-> i + 1]
        [] tok = "str" ->
             [v |-> PyValue("str", 0, text[i].s, <<>>), next |-> i + 1]
        [] tok = "{" -> ParseItems(text, i + 1, TRUE, <<>>)
        [] OTHER -> ParseItems(text, i + 1, FALSE, <<>>)
ParseItems(text, i, keyed, acc) ==
  IF text[i].tok \in {"]", "}"}
    THEN [v |-> PyValue(IF keyed THEN "map" ELSE "list", 0, "", acc),
          next |-> i + 1]
    ELSE LET j == IF text[i].tok = "," THEN i + 1 ELSE i
             r == ParseValue(text, IF keyed THEN j + 2 ELSE j)
         IN  ParseItems(text, r.next, keyed,
                        Append(acc, Item(IF keyed THEN text[j].s ELSE "",
                                         r.v)))
\* json.loads(text)
json_loads(text) == ParseValue(text, 1).v

RECURSIVE bson(_)
\* what comes back of a value put in a MongoDB document: the driver writes
\* a tuple as an array and reads every array as a list
bson(v) ==
  [v EXCEPT !.t = IF @ = "tuple" THEN "list" ELSE @,
            !.items = [i \in 1..Len(v.items) |->
                         Item(v.items[i].k, bson(v.items[i]))]]

\* the fields of the persisted record shapes
EventFields == {"trace_id", "execution_id", "parent_id", "agent_name",
                "method_name", "event_type", "timestamp", "data"}
ArtifactFields == {"id", "trace_id", "execution_id", "name", "content",
                   "artifact_type", "timestamp"}

\* TraceEvent(...).to_dict() and Artifact(...).to_dict() of new objects;
\* the Artifact drew its id from uuid4 in __init__
EventDict(tr, ex, par, data) ==
  [trace_id |-> tr, execution_id |-> ex, parent_id |-> par,
   agent_name |-> "agent", method_name |-> "method", event_type |-> "start",
   timestamp |-> clock, data |-> data]
ArtifactDict(id, tr, ex, content) ==
  [id |-> id, trace_id |-> tr, execution_id |-> ex, name |-> "a",
   content |-> content, artifact_type |-> "data", timestamp |-> clock]

\* what save_trace_event of backend b keeps of event dict e: the object
\* (memory), a row with a fresh id and the data as JSON text (sqlite), a
\* document with the _id the driver adds (mongodb)
StoredEvent(b, e, id) ==
  CASE b = "sqlite" ->
         [f \in EventFields \cup {"id"} |->
            IF f = "id" THEN id
            ELSE IF f = "data" THEN json_dumps(e.data) ELSE e[f]]
    [] b = "mongodb" ->
         [f \in EventFields \cup {"_id"} |->
            IF f = "_id" THEN id
            ELSE IF f = "data" THEN bson(e.data) ELSE e[f]]
    [] OTHER -> e

\* MongoDBTraceStorage.save_artifact: insert_one(artifact.to_dict()); the
\* dict has no _id, so the driver adds a new ObjectId
MongoArtifact(a, id) ==
  [f \in ArtifactFields \cup {"_id"} |->
     IF f = "_id" THEN id
     ELSE IF f = "content" THEN bson(a.content) ELSE a[f]]

\* what save_artifact of backend b keeps of artifact dict a
StoredArtifact(b, a, id) ==
  CASE b = "sqlite" -> [a EXCEPT !.content = json_dumps(a.content)]
    [] b = "mongodb" -> MongoArtifact(a, id)
    [] OTHER -> a

\* the id save_artifact returns: artifact.id (memory), artifact_dict["id"]
\* (sqlite), str(result.inserted_id) (mongodb)
SaveArtifactReturns(b, stored) ==
  IF b = "mongodb" THEN stored["_id"] ELSE stored.id

\* get_trace of backend b on one kept event or artifact
ReadBack(b, r, field) ==
  CASE b = "sqlite" -> [r EXCEPT ![field] = json_loads(@)]
    [] b = "mongodb" ->
         [f \in (DOMAIN r \ {"_id"}) \cup {"id"} |->
            IF f = "id" THEN r["_id"] ELSE r[f]]
    [] OTHER -> r

\* get_trace(trace_id) of backend b
BackendGetTrace(b, evs, arts, tr) ==
  LET es == SelectSeq(evs, LAMBDA e : e.trace_id = tr)
      as == SelectSeq(arts, LAMBDA a : a.trace_id = tr)
  IN  [trace_id |-> tr,
       events |-> [i \in 1..Len(es) |-> ReadBack(b, es[i], "data")],
       artifacts |-> [i \in 1..Len(as) |-> ReadBack(b, as[i], "content")]]

\* storage.save_trace_event(TraceEvent(tr, ex, par, ..., data))
BackendSaveEvent(tr, ex, par, data) ==
  /\ Len(saved) < MaxBackendSaves
  /\ LET e == EventDict(tr, ex, par, data)
         kept == StoredEvent(program.backend, e, nextId)
     IN  /\ events' = Append(events, kept)
         /\ saved' = Append(saved, [kind |-> "event", rec |-> e,
                                    ret |-> nextId])
  /\ nextId' = nextId + 1
  /\ UNCHANGED <<ctx, stack, artifacts, instances, attrs, faults, program,
                 calls, exited, written, clock, more>>

\* storage.save_artifact(Artifact(tr, ex, "a", content, "data"))
BackendSaveArtifact(tr, ex, content) ==
  /\ Len(saved) < MaxBackendSaves
  /\ LET a == ArtifactDict(nextId, tr, ex, content)
         kept == StoredArtifact(program.backend, a, nextId + 1)
     IN  /\ artifacts' = Append(artifacts, kept)
         /\ saved' = Append(saved,
                       [kind |-> "artifact", rec |-> a,
                        ret |-> SaveArtifactReturns(program.backend, kept)])
  /\ nextId' = nextId + 2
  /\ UNCHANGED <<ctx, stack, events, instances, attrs, faults, program,
                 calls, exited, written, clock, more>>

NextBackend ==
  \/ \E tr \in StoreTraceIds, ex \in StoreTraceIds, par \in {None, 1},
        data \in Contents : BackendSaveEvent(tr, ex, par, data)
  \/ \E tr \in StoreTraceIds, ex \in StoreTraceIds, content \in Contents :
       BackendSaveArtifact(tr, ex, content)

(* ------------------------------------------------------------------ *)
(* Several threads write to one InMemoryTraceStorage                  *)
(* ------------------------------------------------------------------ *)
\* save_trace_event calls begun so far: each takes two ids, one for the
\* execution_id its caller put in the event and one for the event_id
SavesBegun == (nextId - 1) \div 2

\* thread t calls storage.save_trace_event(event) with a new event of
\* trace tr; the first statement draws event_id = str(uuid.uuid4())
MemDrawEventId(t, tr, type) ==
  /\ t \in program.threads /\ stack[t] = <<>>
  /\ SavesBegun < program.saves
  /\ tr \in program.traces
  /\ stack' = [stack EXCEPT ![t] =
       <<[pc |-> "store", event_id |-> nextId + 1,
          event |-> TraceEvent(tr, nextId, None, "agent", "method", type,
                               NoData, 0)]>>]
  /\ nextId' = nextId + 2
  /\ UNCHANGED <<ctx, events, artifacts, instances, attrs, faults, program,
                 calls, exited, aux, more>>

\* self.events[event_id] = event: one store into the shared dict, which the
\* interpreter carries out as a whole (the key is a str)
MemSetItem(t) ==
  /\ t \in program.threads /\ stack[t] # <<>> /\ Top(t).pc = "store"
  /\ events' = save_trace_event(events, Top(t).event, Top(t).event_id)
  /\ stack' = SetTop(t, [Top(t) EXCEPT !.pc = "return"])
  /\ UNCHANGED <<ctx, artifacts, nextId, instances, attrs, faults, program,
                 calls, exited, aux, more>>

\* return event_id; `saved` keeps what each returned call was given and
\* what it returned (history only)
MemReturn(t) ==
  /\ t \in program.threads /\ stack[t] # <<>> /\ Top(t).pc = "return"
  /\ saved' = Append(saved, [kind |-> "event", thread |-> t,
                             rec |-> Top(t).event, ret |-> Top(t).event_id])
  /\ stack' = [stack EXCEPT ![t] = <<>>]
  /\ UNCHANGED <<ctx, events, artifacts, nextId, instances, attrs, faults,
                 program, calls, exited, written, clock, more>>

NextMem ==
  \/ \E t \in Threads, tr \in StoreTraceIds, type \in {"start", "end"} :
       MemDrawEventId(t, tr, type)
  \/ \E t \in Threads : MemSetItem(t)
  \/ \E t \in Threads : MemReturn(t)

(* ------------------------------------------------------------------ *)
(* The viewer: reading a trace database                               *)
(* ------------------------------------------------------------------ *)
\* Python's None where a time is expected (timestamps are positive, a
\* duration may be 0)
NoTime == 0 - 1

\* the name of the agent in the rows a traced program leaves: top-level
\* calls are made by "main", nested ones by "worker"
AgentOf(par) == IF par = None THEN "main" ELSE "worker"

\* INSERT INTO trace_events: a row of the table the viewer reads
InsertEvent(tr, ex, par, type, ts) ==
  /\ Len(events) + Len(artifacts) < program.rows
  /\ tr \in program.traces /\ ex \in program.execs
  /\ par \in program.parents /\ type \in program.types
  /\ ts \in program.times
  /\ events' = Append(events,
       [id |-> Len(events) + 1, trace_id |-> tr, execution_id |-> ex,
        parent_id |-> par, agent_name |-> AgentOf(par),
        method_name |-> "function", event_type |-> type, timestamp |-> ts])
  /\ view' = NoView
  /\ UNCHANGED <<ctx, stack, artifacts, nextId, instances, attrs, faults,
                 program, calls, exited, aux, _trace_storage, configured>>

\* INSERT INTO trace_artifacts
InsertArtifact(tr, ex) ==
  /\ Len(events) + Len(artifacts) < program.rows
  /\ tr \in program.traces /\ ex \in program.execs
  /\ artifacts' = Append(artifacts,
       [id |-> Len(artifacts) + 1, trace_id |-> tr, execution_id |-> ex,
        name |-> "a", artifact_type |-> "data"])
  /\ view' = NoView
  /\ UNCHANGED <<ctx, stack, events, nextId, instances, attrs, faults,
                 program, calls, exited, aux, _trace_storage, configured>>

Range(seq) == {seq[i] : i \in 1..Len(seq)}

RECURSIVE SortFromTiesReversed(_, _, _)
\* a sort that is not stable: rows of equal timestamp come out in the
\* reverse of their order in rows
SortFromTiesReversed(rows, v, last) ==
  IF v > last THEN <<>>
  ELSE LET same == SelectSeq(rows, LAMBDA r : r.timestamp = v)
       IN  [i \in 1..Len(same) |-> same[Len(same) + 1 - i]]
           \o SortFromTiesReversed(rows, v + 1, last)

RECURSIVE SortFrom(_, _, _)
\* the rows with timestamp v, v + 1, ..., last in that order, rows of equal
\* timestamp in the order of rows
SortFrom(rows, v, last) ==
  IF v > last THEN <<>>
  ELSE SelectSeq(rows, LAMBDA r : r.timestamp = v)
       \o SortFrom(rows, v + 1, last)

\* a query without ORDER BY: the rows as they are stored
Unordered(rows) == rows

\* ORDER BY timestamp ASC: rows of equal timestamp stay in stored order
OrderByTimestamp(rows) ==
  IF rows = <<>> THEN rows
  ELSE LET ts == {rows[i].timestamp : i \in 1..Len(rows)}
           lo == CHOOSE m \in ts : \A n \in ts : m <= n
           hi == CHOOSE m \in ts : \A n \in ts : n <= m
       IN  SortFrom(rows, lo, hi)

\* the keys of the executions dict in insertion order: the execution ids
\* of the rows, each where it occurs first
ExecutionKeys(rows) ==
  LET first == SelectSeq([i \in 1..Len(rows) |-> i],
                 LAMBDA i : \A j \in 1..(i - 1) :
                   rows[j].execution_id # rows[i].execution_id)
  IN  [k \in 1..Len(first) |-> rows[first[k]].execution_id]

\* the row that creates the Execution of x
FirstRow(rows, x) ==
  rows[CHOOSE i \in 1..Len(rows) :
         /\ rows[i].execution_id = x
         /\ \A j \in 1..(i - 1) : rows[j].execution_id # x]

\* children lists that never name the execution itself
ChildListNoSelf(keys, parent, x) ==
  SelectSeq(keys, LAMBDA y :
    Truthy(parent[y]) /\ parent[y] \in Range(keys) /\ parent[y] = x
      /\ y # x)

\* executions[parent_id].children after the loop over executions.items()
ChildList(keys, parent, x) ==
  SelectSeq(keys, LAMBDA y :
    Truthy(parent[y]) /\ parent[y] \in Range(keys) /\ parent[y] = x)

\* roots are the executions without a parent_id only
RootListAbsentOnly(keys, parent) ==
  SelectSeq(keys, LAMBDA y : ~Truthy(parent[y]))

\* root_executions: not execution.parent_id or parent_id not in executions
RootList(keys, parent) ==
  SelectSeq(keys, LAMBDA y :
    ~Truthy(parent[y]) \/ parent[y] \notin Range(keys))

\* Trace.from_database(db_path, trace_id) on the tables evs and arts
from_database(evs, arts, tr) ==
  LET rows == OrderByTimestamp(SelectSeq(evs, LAMBDA e : e.trace_id = tr))
      found == SelectSeq(arts, LAMBDA a : a.trace_id = tr)
      keys == ExecutionKeys(rows)
      parent == [x \in Range(keys) |-> FirstRow(rows, x).parent_id]
  IN  [id |-> tr,
       executions |->
         [x \in Range(keys) |->
            [id |-> x,
             parent_id |-> parent[x],
             agent_name |-> FirstRow(rows, x).agent_name,
             events |-> SelectSeq(rows, LAMBDA e : e.execution_id = x),
             artifacts |-> SelectSeq(found, LAMBDA a : a.execution_id = x),
             children |-> ChildList(keys, parent, x)]],
       root_executions |-> RootList(keys, parent)]

\* Execution.start_time, Execution.end_time, Execution.duration
ExecutionStartTime(execution) ==
  IF execution.events = <<>> THEN NoTime
  ELSE LET ts == {e.timestamp : e \in Range(execution.events)}
       IN  CHOOSE m \in ts : \A n \in ts : m <= n
\* an end_time that is the timestamp of the last event of the list
ExecutionEndTimeOfLastEvent(execution) ==
  IF execution.events = <<>> THEN NoTime
  ELSE execution.events[Len(execution.events)].timestamp

ExecutionEndTime(execution) ==
  IF execution.events = <<>> THEN NoTime
  ELSE LET ts == {e.timestamp : e \in Range(execution.events)}
       IN  CHOOSE m \in ts : \A n \in ts : n <= m
ExecutionDuration(execution) ==
  IF ExecutionStartTime(execution) = NoTime
       \/ ExecutionEndTime(execution) = NoTime
    THEN NoTime
    ELSE ExecutionEndTime(execution) - ExecutionStartTime(execution)

\* Execution.method_names: sorted(set(event.method_name for event in
\* self.events)); sorted() puts str values in the order of DirOrder
method_names(execution) ==
  SelectSeq(DirOrder, LAMBDA n :
    \E e \in Range(execution.events) : e.method_name = n)

RECURSIVE SumLen(_, _)
SumLen(lists, keys) ==
  IF keys = {} THEN 0
  ELSE LET x == CHOOSE k \in keys : TRUE
       IN  Len(lists[x]) + SumLen(lists, keys \ {x})
\* Trace.total_artifacts
total_artifacts(trace) ==
  SumLen([x \in DOMAIN trace.executions |-> trace.executions[x].artifacts],
         DOMAIN trace.executions)

\* the viewer loads trace tr (views.py: Trace.from_database)
LoadTrace(tr) ==
  /\ events # <<>> \/ artifacts # <<>>
  /\ view' = [op |-> "from_database", trace_id |-> tr,
              trace |-> from_database(events, artifacts, tr)]
  /\ UNCHANGED <<ctx, stack, events, artifacts, nextId, instances, attrs,
                 faults, program, calls, exited, aux, _trace_storage,
                 configured>>

NextView ==
  \/ \E tr \in ViewTraceIds, ex \in ViewExecIds, par \in ViewParents,
        type \in {"start", "end"}, ts \in 1..MaxViewTime :
       InsertEvent(tr, ex, par, type, ts)
  \/ \E tr \in ViewTraceIds, ex \in ViewExecIds : InsertArtifact(tr, ex)
  \/ \E tr \in ViewTraceIds : LoadTrace(tr)

\* Execution(...): the dataclass takes any list of events
Execution(evs) ==
  [id |-> 1, parent_id |-> None, agent_name |-> "main", events |-> evs,
   artifacts |-> <<>>, children |-> <<>>]

\* one more event in the list the Execution is built from
AddExecutionEvent(method, ts) ==
  /\ Len(events) < program.rows
  /\ method \in program.names /\ ts \in program.times
  /\ events' = Append(events,
       [id |-> Len(events) + 1, trace_id |-> 1, execution_id |-> 1,
        parent_id |-> None, agent_name |-> "main", method_name |-> method,
        event_type |-> "start", timestamp |-> ts])
  /\ view' = NoView
  /\ UNCHANGED <<ctx, stack, artifacts, nextId, instances, attrs, faults,
                 program, calls, exited, aux, _trace_storage, configured>>

\* the properties of the Execution are read (views.py: get_trace reads
\* them for the response)
ReadExecution ==
  /\ LET execution == Execution(events)
     IN  view' = [op |-> "Execution",
                  start_time |-> ExecutionStartTime(execution),
                  end_time |-> ExecutionEndTime(execution),
                  duration |-> ExecutionDuration(execution),
                  method_names |-> method_names(execution)]
  /\ UNCHANGED <<ctx, stack, events, artifacts, nextId, instances, attrs,
                 faults, program, calls, exited, aux, _trace_storage,
                 configured>>

NextExec ==
  \/ \E m \in AllNames, ts \in 1..MaxExecTime : AddExecutionEvent(m, ts)
  \/ ReadExecution

(* ------------------------------------------------------------------ *)
(* The viewer: listing the traces of a database                       *)
(* ------------------------------------------------------------------ *)
\* GROUP BY e.trace_id: the trace ids of the rows of trace_events
GroupByTraceId(evs) == {evs[i].trace_id : i \in 1..Len(evs)}

\* the row the SELECT computes for the group of trace tr
SummaryRow(evs, tr) ==
  LET rows == SelectSeq(evs, LAMBDA e : e.trace_id = tr)
      ts == {rows[i].timestamp : i \in 1..Len(rows)}
  IN  [trace_id |-> tr,
       execution_count |->
         Cardinality({rows[i].execution_id : i \in 1..Len(rows)}),
       start_time |-> CHOOSE m \in ts : \A n \in ts : m <= n,
       end_time |-> CHOOSE m \in ts : \A n \in ts : n <= m,
       root_agent |-> OrderByTimestamp(rows)[1].agent_name]

\* the orders in which a set of rows can be listed
Listings(rows) ==
  {l \in [1..Cardinality(rows) -> rows] :
     \A i, j \in 1..Cardinality(rows) : l[i] = l[j] => i = j}

\* the rows listed by ascending start_time
OrderByStartTimeAsc(rows) ==
  {l \in Listings(rows) :
     \A i, j \in 1..Len(l) : i < j => l[i].start_time <= l[j].start_time}

\* ORDER BY start_time DESC: rows of equal start_time come in any order
OrderByStartTimeDesc(rows) ==
  {l \in Listings(rows) :
     \A i, j \in 1..Len(l) : i < j => l[i].start_time >= l[j].start_time}

\* LIMIT ?: the first rows; SQLite takes a negative limit as no limit
Limit(l, limit) ==
  IF limit < 0 \/ limit >= Len(l) THEN l ELSE SubSeq(l, 1, limit)

\* datetime.fromtimestamp(t)
fromtimestamp(t) == [datetime |-> t]

\* the summary dictionary list_traces builds of a row
Summary(row) ==
  [trace_id |-> row.trace_id, root_agent |-> row.root_agent,
   execution_count |-> row.execution_count,
   duration |-> row.end_time - row.start_time,
   start_time |-> fromtimestamp(row.start_time)]

\* Trace.list_traces(db_path, limit): the lists it can return
list_traces(evs, limit) ==
  {[i \in 1..Len(Limit(l, limit)) |-> Summary(l[i])] :
     l \in OrderByStartTimeDesc({SummaryRow(evs, tr) :
                                   tr \in GroupByTraceId(evs)})}

\* the viewer lists the traces (views.py: Trace.list_traces(db, limit))
ListTraces(limit) ==
  /\ events # <<>> \/ artifacts # <<>>
  /\ \E traces \in list_traces(events, limit) :
       view' = [op |-> "list_traces", limit |-> limit, traces |-> traces]
  /\ UNCHANGED <<ctx, stack, events, artifacts, nextId, instances, attrs,
                 faults, program, calls, exited, aux, _trace_storage,
                 configured>>

NextList ==
  \/ \E tr \in ListTraceIds, ex \in ViewExecIds, ts \in 1..MaxListTime :
       InsertEvent(tr, ex, None, "start", ts)
  \/ \E tr \in ListTraceIds, ex \in ViewExecIds : InsertArtifact(tr, ex)
  \/ \E limit \in 0..MaxLimit : ListTraces(limit)

(* ------------------------------------------------------------------ *)
(* configure_tracing and the module's storage object                  *)
(* ------------------------------------------------------------------ *)
\* what a caller may pass as storage_type: the three selectors the code
\* knows, "sql" (named by the docstring only) and "file" (a backend of the
\* package that has no selector)
Selectors == {"memory", "mongodb", "sqlite", "sql", "file"}
\* how the constructor of a backend can end: InMemoryTraceStorage() always
\* returns, MongoDBTraceStorage raises ImportError without pymongo and
\* the driver's error without a server, SQLiteTraceStorage raises when the
\* database file cannot be opened
Outcomes(storage_type) ==
  CASE storage_type = "mongodb" -> {"", "ImportError", "ConnectionFailure"}
    [] storage_type = "sqlite" -> {"", "OperationalError"}
    [] OTHER -> {""}
\* a new backend object of the given class, holding nothing
NewStorage(type, id) == [type |-> type, id |-> id, events |-> 0]

\* configure_tracing that answers an unknown selector with the in-memory
\* backend
configure_tracing_fallback(st, storage_type, outcome, id) ==
  IF storage_type \in {"memory", "mongodb", "sqlite"}
    THEN IF outcome = ""
           THEN [storage |-> NewStorage(storage_type, id), raised |-> ""]
           ELSE [storage |-> st, raised |-> outcome]
    ELSE [storage |-> NewStorage("memory", id), raised |-> ""]

\* configure_tracing(storage_type, **kwargs): the global is assigned only
\* after the constructor returned; what it leaves in _trace_storage and
\* what it raises
configure_tracing(st, storage_type, outcome, id) ==
  IF storage_type \in {"memory", "mongodb", "sqlite"}
    THEN IF outcome = ""
           THEN [storage |-> NewStorage(storage_type, id), raised |-> ""]
           ELSE [storage |-> st, raised |-> outcome]
    ELSE [storage |-> st, raised |-> "ValueError"]

\* _get_trace_storage(): the in-memory backend is made on first use when
\* nothing was configured
_get_trace_storage(st, id) ==
  IF st = NoStorage THEN NewStorage("memory", id) ELSE st

\* user code calls configure_tracing(storage_type)
ConfigureTracing(storage_type, outcome) ==
  /\ outcome \in Outcomes(storage_type)
  /\ LET r == configure_tracing(_trace_storage, storage_type, outcome, nextId)
     IN  /\ r.storage # _trace_storage => nextId <= MaxStorages
         /\ _trace_storage' = r.storage
         /\ nextId' = IF r.storage # _trace_storage THEN nextId + 1
                      ELSE nextId
         /\ configured' = [storage_type |-> storage_type,
                           raised |-> r.raised, before |-> _trace_storage]
  /\ UNCHANGED <<ctx, stack, events, artifacts, instances, attrs, faults,
                 program, calls, exited, aux, view>>

\* a wrapper fetches the storage and saves an event on it
SaveOnConfigured ==
  /\ LET st == _get_trace_storage(_trace_storage, nextId)
     IN  /\ st.events < MaxConfSaves
         /\ st # _trace_storage => nextId <= MaxStorages
         /\ _trace_storage' = [st EXCEPT !.events = @ + 1]
         /\ nextId' = IF st # _trace_storage THEN nextId + 1 ELSE nextId
  /\ configured' = NotConfigured
  /\ UNCHANGED <<ctx, stack, events, artifacts, instances, attrs, faults,
                 program, calls, exited, aux, view>>

NextConf ==
  \/ \E storage_type \in Selectors :
       \E outcome \in Outcomes(storage_type) :
         ConfigureTracing(storage_type, outcome)
  \/ SaveOnConfigured

Spec == Init /\ [][Next]_vars
SpecConc == InitConc /\ [][NextConc]_vars
SpecCtx == InitCtx /\ [][NextCtx]_vars
SpecWrap == InitWrap /\ [][NextWrap]_vars
SpecOpt == InitOpt /\ [][NextOpt]_vars
SpecTimed == InitTimed /\ [][NextTimed]_vars
SpecStore == InitStore /\ [][NextStore]_vars
SpecConf == InitConf /\ [][NextConf]_vars
SpecView == InitView /\ [][NextView]_vars
SpecList == InitList /\ [][NextList]_vars
SpecBackend == InitBackend /\ [][NextBackend]_vars
SpecAbort == InitAbort /\ [][NextAbort]_vars
SpecIds == InitIds /\ [][NextIds]_vars
SpecExec == InitExec /\ [][NextExec]_vars
SpecMem == InitMem /\ [][NextMem]_vars

TypeOK ==
  /\ nextId \in Nat
  /\ faults \in 0..MaxFaults
  /\ Len(calls) <= program.calls
  /\ \A t \in Threads : Len(stack[t]) <= MaxDepth


(* ------------------------------------------------------------------ *)
(* Properties                                                         *)
(* ------------------------------------------------------------------ *)
EventSet == {events[i] : i \in 1..Len(events)}
\* events saved by the wrapper of invocation n
EventsOf(n) == {e \in EventSet : e.call = n}
CallIds == 1..Len(calls)
Plain(c) == c.kind \in {"fn", "span"} /\ c.op # "h"
Quiescent == \A t \in Threads : stack[t] = <<>>

\* C1: in a behaviour made only of @traced functions and span blocks without
\* explicit trace_id/parent_id, every event of an invocation made inside an
\* open invocation carries the enclosing invocation's execution_id as
\* parent_id and the enclosing invocation's trace_id.
C1_ParentIsEnclosingCall ==
  (\A n \in CallIds : Plain(calls[n])) =>
    \A n \in CallIds : \A e \in EventsOf(n) :
      calls[n].caller # 0 =>
        /\ e.parent_id = calls[calls[n].caller].execution_id
        /\ e.trace_id = calls[calls[n].caller].trace_id

\* C2: when an @traced function or a wrapped Traced method has exited, by
\* return or by exception, the ambient trace and parent ids are the ones the
\* thread had right before the invocation began.  (Stated for the runs in
\* which every storage write succeeds, which the claim includes.)
C2_ContextRestoredOnExit ==
  \A t \in Threads :
    (faults = 0 /\ exited[t].valid /\ exited[t].kind \in {"fn", "method"}) =>
      exited[t].after = exited[t].before

\* C3: of two @traced functions without explicit ids called one after the
\* other at top level of one thread that started with an empty context, the
\* second records no parent_id and a trace_id other than the first one's.
\* (Stated for the runs in which every storage write succeeds.)
C3_SecondRootIsUnrelated ==
  (/\ faults = 0
   /\ Len(calls) >= 2
   /\ Plain(calls[1]) /\ calls[1].kind = "fn" /\ calls[1].caller = 0
   /\ Plain(calls[2]) /\ calls[2].kind = "fn" /\ calls[2].caller = 0
   /\ calls[1].thread = calls[2].thread
   /\ calls[1].before = EmptyContext) =>
    \A e \in EventsOf(2) :
      /\ e.parent_id = None
      /\ e.trace_id # calls[1].trace_id

\* C4: a call of an @traced function or of a wrapped Traced method that
\* completes normally has run the called operation's own original
\* implementation exactly once, with the caller's argument, and hands the
\* caller the result that implementation returned.
C4_RunsOwnImplementationOnce ==
  \A t \in Threads :
    (/\ faults = 0
     /\ exited[t].valid
     /\ exited[t].kind \in {"fn", "method"}
     /\ exited[t].exc = NoExc) =>
      /\ exited[t].ran = <<[impl |-> exited[t].op, arg |-> exited[t].arg]>>
      /\ exited[t].returned = exited[t].result

\* C5: in all three binding modes, when the wrapped operation or region
\* raised and no storage write has failed, the exception that leaves the
\* wrapper is the one the operation raised.
C5_SameExceptionPropagates ==
  \A t \in Threads :
    (exited[t].valid /\ exited[t].bodyExc # NoExc /\ faults = 0) =>
      exited[t].exc = exited[t].bodyExc

C5_Witness ==
  /\ faults = 0
  /\ exited[1].valid /\ exited[1].kind = "span"
  /\ exited[1].bodyExc \in UserExcs
  /\ stack[1] # <<>> /\ Top(1).kind = "method" /\ Top(1).pc = "except"
  /\ Top(1).exc = exited[1].bodyExc

\* C6: when an @traced function or a wrapped Traced method raised, every
\* terminal event saved for that call is an "error" event carrying the
\* error's message and kind; none is an "end" event.
C6_FailedCallRecordsError ==
  \A t \in Threads :
    (/\ faults = 0
     /\ exited[t].valid
     /\ exited[t].kind \in {"fn", "method"}
     /\ exited[t].bodyExc \in UserExcs) =>
      \A e \in EventsOf(exited[t].call) :
        e.event_type \in {"end", "error"} =>
          /\ e.event_type = "error"
          /\ e.data.error = exited[t].bodyExc.msg
          /\ e.data.error_type = exited[t].bodyExc.type

\* C7: whenever no invocation is open, every execution_id that has an "end"
\* or "error" event in storage has exactly one "start" event in storage.
C7_OneStartPerTerminal ==
  Quiescent =>
    \A e \in EventSet :
      e.event_type \in {"end", "error"} =>
        Cardinality({i \in 1..Len(events) :
                       /\ events[i].event_type = "start"
                       /\ events[i].execution_id = e.execution_id}) = 1

\* C8: events saved by two distinct invocations of @traced functions or
\* wrapped methods never carry the same execution_id.
C8_FreshExecutionIdPerCall ==
  \A m, n \in CallIds :
    (m # n /\ calls[m].kind \in {"fn", "method"}
           /\ calls[n].kind \in {"fn", "method"}) =>
      \A d \in EventsOf(m), e \in EventsOf(n) :
        d.execution_id # e.execution_id

\* C9: any two stored events with the same execution_id have the same
\* trace_id, the same parent_id and the same agent_name.
C9_SameExecutionSameIds ==
  \A d, e \in EventSet :
    d.execution_id = e.execution_id =>
      /\ d.trace_id = e.trace_id
      /\ d.parent_id = e.parent_id
      /\ d.agent_name = e.agent_name

C9_Witness ==
  \E d, e \in EventSet :
    /\ d.execution_id = e.execution_id
    /\ d.call # e.call
    /\ d.method_name = "custom"
    /\ e.event_type = "end" /\ "error" \in e.data.keys
    /\ calls[e.call].before # EmptyContext

\* C10: events saved by traced calls that run on two different threads, each
\* thread having started with an empty context, never share a trace_id, and
\* none has as parent_id the execution_id of an event of the other thread.
C10_ThreadsDoNotShareTraces ==
  \A d, e \in EventSet :
    (d.call # 0 /\ e.call # 0 /\ calls[d.call].thread # calls[e.call].thread)
      => /\ d.trace_id # e.trace_id
         /\ d.parent_id # e.execution_id
         /\ e.parent_id # d.execution_id

C10_Witness ==
  /\ \E m, n \in CallIds :
       /\ calls[m].thread = 1 /\ calls[n].thread = 2
       /\ calls[m].kind = "fn" /\ calls[n].kind = "fn"
       /\ calls[m].caller = 0 /\ calls[n].caller = 0
       /\ calls[m].before = EmptyContext /\ calls[n].before = EmptyContext
       /\ \E d \in EventsOf(m) : d.event_type = "start"
       /\ \E e \in EventsOf(n) : e.event_type = "start"
  /\ stack[1] # <<>> /\ stack[2] # <<>>

\* C11: on every thread the TraceContext getters answer what that thread's
\* own calls left: the value it set last, None if it never set one or has
\* called clear() since; no set or clear of another thread changes it.
C11_GettersAnswerOwnThread ==
  \A t \in Threads :
    /\ get_current_trace_id(ctx, t) = written[t].trace_id
    /\ get_current_parent_id(ctx, t) = written[t].parent_id
    /\ written[t].cleared =>
         /\ get_current_trace_id(ctx, t) = None
         /\ get_current_parent_id(ctx, t) = None

\* thread 2 has cleared its context while thread 1 holds both identifiers,
\* and thread 1 holds a trace id that thread 2 never wrote
C11_Witness ==
  /\ written[2].cleared
  /\ get_current_trace_id(ctx, 1) = 2
  /\ get_current_parent_id(ctx, 1) = 3
  /\ get_current_trace_id(ctx, 2) = None

\* the name is one that _wrap_methods must leave alone on class c
MustNotWrap(c, n) ==
  StartsWithUnderscore(n) \/ n \in TRACED_EXCLUDE(c) \/ HasNotTraced(n)

\* C12: no call of a method whose name begins with an underscore, is listed
\* in TRACED_EXCLUDE of the instance's class or carries the not_traced mark
\* goes through a method wrapper, whichever classes of the hierarchy were
\* instantiated before.
C12_ExcludedNeverInstrumented ==
  \A n \in CallIds :
    calls[n].kind = "method" =>
      ~MustNotWrap(instances[calls[n].inst].class, calls[n].op)

\* the invocation that called n directly is of an operation that must not
\* be instrumented: one that runs unwrapped, or a method whose name
\* _wrap_methods must leave alone on the class of its instance
ThroughExcluded(n) ==
  \/ calls[n].through # ""
  \/ /\ calls[n].caller # 0
     /\ calls[calls[n].caller].kind = "method"
     /\ MustNotWrap(instances[calls[calls[n].caller].inst].class,
                    calls[calls[n].caller].op)
\* the traced call the excluded operation was invoked in (0: none)
EnclosingTraced(n) ==
  IF calls[n].through # "" THEN calls[n].caller
  ELSE calls[calls[n].caller].caller

\* C13: when an operation that is excluded from instrumentation is invoked
\* inside an open traced call P and itself calls an @traced function N, no
\* event is saved for the excluded operation, and every event of N carries
\* P's execution_id as parent_id and P's trace_id.
C13_ExcludedIsTransparent ==
  \A n \in CallIds :
    (calls[n].op = "f" /\ ThroughExcluded(n) /\ EnclosingTraced(n) # 0) =>
      /\ calls[n].through # ""
      /\ \A e \in EventsOf(n) :
           /\ e.parent_id = calls[EnclosingTraced(n)].execution_id
           /\ e.trace_id = calls[EnclosingTraced(n)].trace_id

\* invocation n is not on any stack
Exited(n) ==
  \A t \in Threads : \A k \in 1..Len(stack[t]) : stack[t][k].call # n
\* the events saved for one call made by user code: those of the wrapper
\* that was called and of every wrapper layer below it
LayersOf(u) ==
  {u} \cup {m \in CallIds : calls[m].layer > 1 /\ calls[m].caller = u}
EventsOfCall(u) == UNION {EventsOf(m) : m \in LayersOf(u)}

\* C14: wrapping is idempotent: one call of a function to which traced was
\* applied more than once, or of a method of a class that was instantiated
\* more than once, saves exactly one start event and exactly one terminal
\* event when every storage write succeeds.
C14_OneLayerPerCall ==
  \A u \in CallIds :
    (calls[u].layer = 1 /\ Exited(u) /\ faults = 0) =>
      /\ Cardinality({e \in EventsOfCall(u) : e.event_type = "start"}) = 1
      /\ Cardinality({e \in EventsOfCall(u) :
                        e.event_type \in {"end", "error"}}) = 1

\* the recording options in force for invocation n: the decorator's
\* arguments for a function, the class attributes for a method
ParamsEnabled(n) ==
  IF calls[n].kind = "fn" THEN record_params(calls[n].op)
  ELSE TRACED_RECORD_PARAMS(instances[calls[n].inst].class)
ResultsEnabled(n) ==
  IF calls[n].kind = "fn" THEN record_results(calls[n].op)
  ELSE TRACED_RECORD_RESULTS(instances[calls[n].inst].class)

\* C15: the start event of a function or method call carries args/kwargs
\* only if parameter recording is enabled for it, and its end event carries
\* a result only if result recording is enabled; with a flag disabled the
\* key is absent whatever the arguments and the returned value are.
C15_RecordingFollowsFlags ==
  \A n \in CallIds : \A e \in EventsOf(n) :
    calls[n].kind \in {"fn", "method"} =>
      /\ (e.event_type = "start" /\ ~ParamsEnabled(n)) =>
           /\ e.data.keys \cap {"args", "kwargs"} = {}
           /\ e.data.args = ""
      /\ (e.event_type = "end" /\ ~ResultsEnabled(n)) =>
           /\ "result" \notin e.data.keys
           /\ e.data.result = NoResult

\* a call of q and a call of a Mute method have both returned a value and
\* saved their start and end events, and a call of f recorded its argument
C15_Witness ==
  /\ \E n \in CallIds :
       /\ calls[n].op = "q" /\ Exited(n)
       /\ \E e \in EventsOf(n) : e.event_type = "start"
       /\ \E e \in EventsOf(n) : e.event_type = "end" /\ e.data.keys = {}
  /\ \E n \in CallIds :
       /\ calls[n].kind = "method" /\ Exited(n)
       /\ \E e \in EventsOf(n) : e.event_type = "start"
       /\ \E e \in EventsOf(n) : e.event_type = "end" /\ e.data.keys = {}

\* what the statement of C16 asks of a span block that has been left
SpanBlockRecorded(x) ==
  LET ev == EventsOf(x.call)
      starts == {e \in ev : e.event_type = "start"}
      terminals == {e \in ev : e.event_type \in {"end", "error"}}
  IN  /\ Cardinality(starts) = 1
      /\ \A e \in starts : e.data.keys = {"attributes"}
      /\ Cardinality(terminals) = 1
      /\ \A e \in terminals :
           /\ ("error" \in e.data.keys) <=> (x.bodyExc # NoExc)
           /\ ("error_type" \in e.data.keys) <=> (x.bodyExc # NoExc)
           /\ x.bodyExc # NoExc =>
                /\ e.data.error = x.bodyExc.msg
                /\ e.data.error_type = x.bodyExc.type
      /\ x.exc = x.bodyExc

C17_SpanRestoresEntryContext ==
  \A t \in Threads :
    (exited[t].valid /\ exited[t].kind = "span" /\ faults = 0) =>
      exited[t].after = exited[t].before

(* ------------------------------------------------------------------ *)
(* The viewer: Trace.from_database                                    *)
(* ------------------------------------------------------------------ *)
\* SELECT * FROM trace_events WHERE trace_id = ?
TraceRows(tr) == {e \in EventSet : e.trace_id = tr}
\* the keys of the execution map
Executions(tr) == {e.execution_id : e \in TraceRows(tr)}
ExecutionEvents(tr, x) == {e \in TraceRows(tr) : e.execution_id = x}
\* ORDER BY timestamp ASC: the row that creates the Execution of x is one
\* with the least timestamp; rows with equal timestamps come in any order
FirstRows(tr, x) ==
  {e \in ExecutionEvents(tr, x) :
     \A g \in ExecutionEvents(tr, x) : e.timestamp <= g.timestamp}
\* the parent_id an Execution can get
ExecutionParents(tr, x) == {e.parent_id : e \in FirstRows(tr, x)}
\* executions[parent_id].children
Children(tr, p) ==
  {x \in Executions(tr) : \E q \in ExecutionParents(tr, x) :
     Truthy(q) /\ q \in Executions(tr) /\ q = p}
root_executions(tr) ==
  {x \in Executions(tr) : \E q \in ExecutionParents(tr, x) :
     ~Truthy(q) \/ q \notin Executions(tr)}
\* Execution.start_time: the least timestamp of its events
start_time(tr, x) ==
  CHOOSE m \in {e.timestamp : e \in ExecutionEvents(tr, x)} :
    \A e \in ExecutionEvents(tr, x) : m <= e.timestamp
\* an end time taken from the first event of the execution
end_time_first(tr, x) ==
  CHOOSE m \in {e.timestamp : e \in ExecutionEvents(tr, x)} :
    \A e \in ExecutionEvents(tr, x) : m <= e.timestamp

\* Execution.end_time: the greatest timestamp of its events
end_time(tr, x) ==
  CHOOSE m \in {e.timestamp : e \in ExecutionEvents(tr, x)} :
    \A e \in ExecutionEvents(tr, x) : e.timestamp <= m

\* the scenario of C18 has run: from the empty context A (the first
\* invocation) called B, B called C, C raised, B handled the error, B and A
\* returned
ScenarioABC ==
  /\ Len(calls) = 3
  /\ \A n \in CallIds : calls[n].kind = "fn" /\ calls[n].done
  /\ calls[1].caller = 0 /\ calls[1].before = EmptyContext
  /\ calls[2].caller = 1 /\ calls[3].caller = 2
  /\ calls[3].exc \in UserExcs
  /\ calls[2].exc = NoExc /\ calls[1].exc = NoExc

\* C18: after the scenario the store holds exactly three start events, two
\* end events (of A and B) and one error event (of C); the tree rebuilt by
\* the viewer has A as its only root, B as the only child of A, C as the
\* only child of B; the end time of C is the timestamp of its error event.
C18_ScenarioABC ==
  ScenarioABC =>
    LET A == calls[1].execution_id
        B == calls[2].execution_id
        C == calls[3].execution_id
        tr == calls[1].trace_id
        Of(type) == {e \in EventSet : e.event_type = type}
    IN  /\ Len(events) = 6 /\ TraceRows(tr) = EventSet
        /\ Cardinality(Of("start")) = 3
        /\ {e.execution_id : e \in Of("start")} = {A, B, C}
        /\ Cardinality(Of("end")) = 2
        /\ {e.execution_id : e \in Of("end")} = {A, B}
        /\ Cardinality(Of("error")) = 1
        /\ {e.execution_id : e \in Of("error")} = {C}
        /\ root_executions(tr) = {A}
        /\ Children(tr, A) = {B}
        /\ Children(tr, B) = {C}
        /\ Children(tr, C) = {}
        /\ \A e \in Of("error") : end_time(tr, C) = e.timestamp

\* the scenario has run while the clock advanced: C began and failed at
\* different times, B ended within the same clock value as C's failure
C18_Witness ==
  /\ ScenarioABC
  /\ start_time(calls[1].trace_id, calls[3].execution_id)
       < end_time(calls[1].trace_id, calls[3].execution_id)
  /\ end_time(calls[1].trace_id, calls[2].execution_id)
       = end_time(calls[1].trace_id, calls[3].execution_id)

\* C19: every event of a wrapped method invoked inside an open traced call
\* carries that call's execution_id as parent_id and that call's trace_id,
\* wherever the instance was constructed.
C19_MethodParentIsEnclosingCall ==
  \A n \in CallIds :
    (calls[n].kind = "method" /\ calls[n].caller # 0 /\ faults = 0) =>
      \A e \in EventsOf(n) :
        /\ e.parent_id = calls[calls[n].caller].execution_id
        /\ e.trace_id = calls[calls[n].caller].trace_id

\* the save calls that stored an event / an artifact of trace tr
SavedEvents(tr) ==
  {j \in 1..Len(saved) :
     saved[j].kind = "event" /\ saved[j].rec.trace_id = tr}
SavedArtifacts(tr) ==
  {saved[j].rec : j \in {k \in 1..Len(saved) :
     saved[k].kind = "artifact" /\ saved[k].rec.trace_id = tr}}

\* C20: at every point of any sequence of save calls on one backend,
\* get_trace(t) holds exactly what was saved under trace id t up to then:
\* every saved event once per save and every saved artifact once, with the
\* fields it was saved with, and nothing of another trace; as the log of
\* saves only grows, nothing returned once is missing or changed later.
C20_GetTraceReturnsWhatWasSaved ==
  \A tr \in 1..(MaxStoreTrace + 1) :
    LET b == program.backend
        g == get_trace(b, events, artifacts, tr)
        row(j) == EventRow(b, saved[j].rec)
    IN  /\ g.trace_id = tr
        /\ \A i \in 1..Len(g.events) : g.events[i].trace_id = tr
        /\ \A i \in 1..Len(g.artifacts) : g.artifacts[i].trace_id = tr
        /\ Len(g.events) = Cardinality(SavedEvents(tr))
        /\ \A j \in SavedEvents(tr) :
             Cardinality({i \in 1..Len(g.events) : g.events[i] = row(j)})
               = Cardinality({k \in SavedEvents(tr) : row(k) = row(j)})
        /\ Len(g.artifacts) = Cardinality(SavedArtifacts(tr))
        /\ \A a \in SavedArtifacts(tr) :
             Cardinality({i \in 1..Len(g.artifacts) : g.artifacts[i] = a}) = 1

\* records of two traces are stored, one of them an artifact
C20_Witness ==
  /\ Len(saved) = MaxStored
  /\ SavedEvents(1) # {} /\ SavedEvents(2) # {}
  /\ SavedArtifacts(2) # {}

\* C24: when a write of a function or method wrapper itself fails (the
\* save of its start event or of its end event raises while the wrapped
\* operation raised nothing), the wrapper does not catch the storage error:
\* it is not in its except clause, and it saves no event that records the
\* storage error for that call.
C24_StorageFailureNotCaught ==
  /\ \A t \in Threads : \A i \in 1..Len(stack[t]) :
       LET fr == stack[t][i]
       IN  (fr.kind \in {"fn", "method"} /\ fr.exc = StorageError
              /\ fr.bodyExc = NoExc) => fr.pc # "except"
  /\ \A t \in Threads :
       (exited[t].valid /\ exited[t].kind \in {"fn", "method"}
          /\ exited[t].exc = StorageError /\ exited[t].bodyExc = NoExc) =>
         \A e \in EventsOf(exited[t].call) : "error" \notin e.data.keys

SaveRank(j) ==
  Cardinality({k \in 1..j : /\ saved[k].kind = saved[j].kind
                            /\ saved[k].rec.trace_id = saved[j].rec.trace_id})
ReadOf(j) ==
  LET g == BackendGetTrace(program.backend, events, artifacts,
                           saved[j].rec.trace_id)
  IN  IF saved[j].kind = "event" THEN g.events[SaveRank(j)]
      ELSE g.artifacts[SaveRank(j)]
SavedPayload(j) ==
  IF saved[j].kind = "event" THEN saved[j].rec.data ELSE saved[j].rec.content

\* C21: on every backend (in-memory, SQLite, MongoDB) save_artifact returns
\* the id the artifact was given when it was constructed, and the artifact
\* get_trace returns for it later carries that same id.
C21_ArtifactKeepsOwnId ==
  \A j \in 1..Len(saved) :
    saved[j].kind = "artifact" =>
      /\ saved[j].ret = saved[j].rec.id
      /\ ReadOf(j).id = saved[j].rec.id

\* C22: on every backend, an event or artifact whose data / content is
\* JSON-compatible comes back from get_trace with each persisted field
\* (event: trace_id, execution_id, parent_id, agent_name, method_name,
\* event_type, timestamp, data; artifact: id, trace_id, execution_id, name,
\* content, artifact_type, timestamp) equal to the field that was saved.
C22_RoundTrip ==
  \A j \in 1..Len(saved) :
    JsonCompatible(SavedPayload(j)) =>
      \A f \in (IF saved[j].kind = "event" THEN EventFields
                ELSE ArtifactFields) :
        ReadOf(j)[f] = saved[j].rec[f]

\* the viewer has rebuilt a trace from the database as it is now
Rebuilt == view.op = "from_database"
NoDuplicates(seq) == Cardinality(Range(seq)) = Len(seq)

\* C25: in every rebuilt trace the children list of every execution X holds
\* exactly the ids of the executions of the trace whose parent_id is X.id,
\* each of them once and no other id.
C25_ChildrenAreExactlyTheExecutionsWithThatParent ==
  Rebuilt =>
    LET executions == view.trace.executions
    IN  \A x \in DOMAIN executions :
          /\ NoDuplicates(executions[x].children)
          /\ Range(executions[x].children)
               = {y \in DOMAIN executions : executions[y].parent_id = x}

\* trace 1 is rebuilt from rows of two executions: execution 2 is recorded
\* by two events and is the only child of execution 1
C25_Witness ==
  /\ Rebuilt /\ view.trace_id = 1
  /\ DOMAIN view.trace.executions = {1, 2}
  /\ view.trace.executions[1].children = <<2>>
  /\ Len(view.trace.executions[2].events) = 2

\* C26: in every rebuilt trace an execution is in root_executions if and
\* only if its parent_id is absent or is not the id of an execution of the
\* trace; reconstruction answers with a trace whatever the parent ids are.
C26_RootsHaveNoParentInTheTrace ==
  Rebuilt =>
    LET executions == view.trace.executions
    IN  /\ NoDuplicates(view.trace.root_executions)
        /\ Range(view.trace.root_executions)
             = {x \in DOMAIN executions :
                  \/ executions[x].parent_id = None
                  \/ executions[x].parent_id \notin DOMAIN executions}

\* execution 1 names a parent that has no row and is a root, execution 2
\* is its child and is none
C26_Witness ==
  /\ Rebuilt
  /\ DOMAIN view.trace.executions = {1, 2}
  /\ view.trace.executions[1].parent_id = 3
  /\ view.trace.executions[2].parent_id = 1
  /\ view.trace.root_executions = <<1>>

\* the artifact rows stored for trace tr
ArtifactRows(tr) == {a \in Range(artifacts) : a.trace_id = tr}

\* C27: reconstruction keeps every artifact of the trace: an artifact whose
\* execution_id matches no event of the trace is attached to an execution
\* with that id and no events, so total_artifacts is the number of artifact
\* rows stored for the trace.
C27_NoArtifactIsDropped ==
  Rebuilt =>
    /\ total_artifacts(view.trace)
         = Cardinality(ArtifactRows(view.trace_id))
    /\ \A a \in ArtifactRows(view.trace_id) :
         /\ a.execution_id \in DOMAIN view.trace.executions
         /\ a \in Range(view.trace.executions[a.execution_id].artifacts)

\* C28: a rebuilt execution whose only event is a start event has neither
\* an end time nor a duration.
C28_StartOnlyHasNoEndTime ==
  Rebuilt =>
    \A x \in DOMAIN view.trace.executions :
      LET execution == view.trace.executions[x]
      IN  (Len(execution.events) = 1
             /\ execution.events[1].event_type = "start") =>
            /\ ExecutionEndTime(execution) = NoTime
            /\ ExecutionDuration(execution) = NoTime

\* the orders a table of n rows can be stored in
Orders(n) ==
  {p \in [1..n -> 1..n] : \A i, j \in 1..n : p[i] = p[j] => i = j}
Reordered(rows, p) == [i \in 1..Len(rows) |-> rows[p[i]]]
\* the trace rebuilt from every other stored order of the two tables
Rebuildings(tr) ==
  {from_database(Reordered(events, p), Reordered(artifacts, q), tr) :
     p \in Orders(Len(events)), q \in Orders(Len(artifacts))}

\* C29: for every record set of a trace, equal timestamps included, and
\* every order the records can be stored in, reconstruction yields the same
\* executions with the same parent_id, agent_name, event list, artifact
\* list and children list, and the same root list.
C29_OrderIndependent ==
  Rebuilt =>
    \A other \in Rebuildings(view.trace_id) :
      /\ other.executions = view.trace.executions
      /\ other.root_executions = view.trace.root_executions

\* the events of every execution of trace tr share parent_id and agent_name
WellFormed(tr) ==
  \A e, g \in Range(events) :
    (e.trace_id = tr /\ g.trace_id = tr
       /\ e.execution_id = g.execution_id) =>
      e.parent_id = g.parent_id /\ e.agent_name = g.agent_name
Ascending(rows) ==
  \A i, j \in 1..Len(rows) : i < j => rows[i].timestamp <= rows[j].timestamp
\* two lists of table rows (each with its own id) hold the same rows
SameRows(a, b) == Len(a) = Len(b) /\ Range(a) = Range(b)

\* C29 (amended): for every record set of a trace in which the events of an
\* execution share parent_id and agent_name, and every order the records
\* can be stored in, reconstruction yields the same executions with the
\* same parent_id and agent_name, event lists that hold the same events in
\* ascending timestamp order, artifact lists that hold the same artifacts,
\* children lists and root lists that hold the same ids once each; only
\* the order of events with equal timestamps, of artifacts, of children and
\* of roots follows the stored order.
C29_OrderIndependentUpToTies ==
  (Rebuilt /\ WellFormed(view.trace_id)) =>
    \A other \in Rebuildings(view.trace_id) :
      /\ DOMAIN other.executions = DOMAIN view.trace.executions
      /\ \A x \in DOMAIN other.executions :
           LET a == other.executions[x]
               b == view.trace.executions[x]
           IN  /\ a.parent_id = b.parent_id
               /\ a.agent_name = b.agent_name
               /\ SameRows(a.events, b.events)
               /\ Ascending(a.events) /\ Ascending(b.events)
               /\ SameRows(a.artifacts, b.artifacts)
               /\ NoDuplicates(a.children)
               /\ Range(a.children) = Range(b.children)
      /\ NoDuplicates(other.root_executions)
      /\ Range(other.root_executions) = Range(view.trace.root_executions)

\* a trace of three rows is rebuilt whose later event is stored before
\* the earlier one of the same execution, with an artifact
C29_Witness ==
  /\ Rebuilt /\ WellFormed(view.trace_id)
  /\ Len(events) = 2 /\ Len(artifacts) = 1
  /\ events[1].trace_id = view.trace_id /\ events[2].trace_id = view.trace_id
  /\ events[1].execution_id = events[2].execution_id
  /\ events[1].timestamp > events[2].timestamp
  /\ artifacts[1].trace_id = view.trace_id

\* the events stored for trace tr and their timestamps
EventRowsOf(tr) == {e \in Range(events) : e.trace_id = tr}
TimesOf(tr) == {e.timestamp : e \in EventRowsOf(tr)}
Earliest(tr) == CHOOSE m \in TimesOf(tr) : \A n \in TimesOf(tr) : m <= n
Latest(tr) == CHOOSE m \in TimesOf(tr) : \A n \in TimesOf(tr) : n <= m
Listed == {view.traces[i].trace_id : i \in 1..Len(view.traces)}

\* C30: list_traces(limit) returns one summary per distinct trace_id of the
\* stored events, at most limit of them, ordered by start time descending
\* (of two listed traces with start times T1 < T2 the T2 trace comes first,
\* and no trace left out started later than a listed one); the start time
\* is the least event timestamp of the trace, the duration the greatest
\* minus the least, execution_count the number of distinct execution_ids.
C30_ListTraces ==
  view.op = "list_traces" =>
    LET traces == view.traces
        stored == GroupByTraceId(events)
    IN  /\ Len(traces) <= view.limit
        /\ Len(traces) = IF view.limit < Cardinality(stored)
                           THEN view.limit ELSE Cardinality(stored)
        /\ Listed \subseteq stored /\ Cardinality(Listed) = Len(traces)
        /\ \A i, j \in 1..Len(traces) :
             Earliest(traces[i].trace_id) < Earliest(traces[j].trace_id)
               => j < i
        /\ \A tr \in Listed : \A left \in stored \ Listed :
             Earliest(left) <= Earliest(tr)
        /\ \A i \in 1..Len(traces) :
             LET tr == traces[i].trace_id
             IN  /\ traces[i].start_time = fromtimestamp(Earliest(tr))
                 /\ traces[i].duration = Latest(tr) - Earliest(tr)
                 /\ traces[i].execution_count
                      = Cardinality({e.execution_id : e \in EventRowsOf(tr)})

\* two traces are stored, the one that started first with two executions
\* and a duration; both are listed, the later one first
C30_Witness ==
  /\ view.op = "list_traces" /\ Len(view.traces) = 2
  /\ view.traces[1].start_time.datetime > view.traces[2].start_time.datetime
  /\ view.traces[2].execution_count = 2 /\ view.traces[2].duration > 0

\* storage positions of the start events and of the terminal events that
\* the wrapper of invocation n saved
StartsOf(n) ==
  {i \in 1..Len(events) : events[i].call = n /\ events[i].event_type = "start"}
TerminalsOf(n) ==
  {i \in 1..Len(events) :
     events[i].call = n /\ events[i].event_type \in {"end", "error"}}

\* C31: for every invocation of an @traced function, the start event is in
\* storage once the wrapped operation has begun, no terminal event is in
\* storage before the operation has finished, and once the invocation has
\* left its wrapper (the context restored) storage holds exactly one terminal
\* event of it: an end event if it returned, an error event if it raised.
C31_StartThenOneTerminalThenRestore ==
  \A n \in CallIds :
    calls[n].kind = "fn" =>
      /\ \A t \in Threads : \A k \in 1..Len(stack[t]) :
           stack[t][k].call = n =>
             /\ stack[t][k].ran # <<>> => StartsOf(n) # {}
             /\ stack[t][k].pc \in {"start", "body"} => TerminalsOf(n) = {}
      /\ calls[n].done =>
           /\ Cardinality(TerminalsOf(n)) = 1
           /\ \A i \in TerminalsOf(n) :
                /\ events[i].event_type =
                     (IF calls[n].exc = NoExc THEN "end" ELSE "error")
                /\ \A j \in StartsOf(n) : j < i

\* the explicit ids given for invocation n: to the decorator, to span(...)
\* or to the constructor of the instance the method is called on
GivenIds(n) ==
  CASE calls[n].kind = "fn" ->
         [trace_id |-> FnTraceId(calls[n].op),
          parent_id |-> FnParentId(calls[n].op)]
    [] calls[n].kind = "span" ->
         [trace_id |-> SpanTraceId(calls[n].op),
          parent_id |-> SpanParentId(calls[n].op)]
    [] OTHER ->
         [trace_id |-> CtorTraceId(instances[calls[n].inst].class),
          parent_id |-> CtorParentId(instances[calls[n].inst].class)]
\* the ambient context at the moment the ids of invocation n were resolved:
\* the call of the function, the span statement, the construction of the
\* instance
AmbientIds(n) ==
  IF calls[n].kind = "method" THEN instances[calls[n].inst].before
  ELSE calls[n].before

\* C32: every event a wrapper saves carries as trace_id the explicit
\* trace_id if one was given, else the ambient trace id, else a generated id;
\* as parent_id the explicit parent_id if one was given, else the ambient
\* parent id, else none.
C32_ExplicitThenAmbientThenFresh ==
  \A i \in 1..Len(events) :
    events[i].call # 0 =>
      LET n == events[i].call
          trace == Or(GivenIds(n).trace_id, AmbientIds(n).trace_id)
      IN  /\ events[i].parent_id =
               Or(GivenIds(n).parent_id, AmbientIds(n).parent_id)
          /\ IF Truthy(trace) THEN events[i].trace_id = trace
             ELSE events[i].trace_id > 0

C34_ExecutionMetrics ==
  view.op = "Execution" =>
    LET ts == {e.timestamp : e \in Range(events)}
        names == {e.method_name : e \in Range(events)}
        l == view.method_names
    IN  /\ IF events = <<>>
             THEN /\ view.start_time = NoTime
                  /\ view.end_time = NoTime
                  /\ view.duration = NoTime
             ELSE /\ view.start_time \in ts
                  /\ \A v \in ts : view.start_time <= v
                  /\ view.end_time \in ts
                  /\ \A v \in ts : v <= view.end_time
                  /\ view.duration = view.end_time - view.start_time
                  /\ view.duration >= 0
        /\ Range(l) = names
        /\ \A i, j \in 1..Len(l) : i < j => IndexOf(l[i]) < IndexOf(l[j])

\* three events, the latest first and the earliest in the middle, a method
\* name twice
C34_Witness ==
  /\ view.op = "Execution"
  /\ Len(events) = 3
  /\ events[1].timestamp > events[3].timestamp
  /\ events[3].timestamp > events[2].timestamp
  /\ events[1].method_name = "zeta"
  /\ events[2].method_name = "alpha"
  /\ events[3].method_name = "zeta"
  /\ view.duration = 2
  /\ view.method_names = <<"alpha", "zeta">>

\* C35: when an invocation in any binding mode has been left with the error
\* of a failed storage write, the ambient trace id and parent id are the
\* ones the thread had right before the invocation began.  (Stated for the
\* invocations that began with both ambient ids set, which the claim
\* includes.)
C35_RestoredAfterStorageFailure ==
  \A t \in Threads :
    (/\ exited[t].valid
     /\ exited[t].exc = StorageError
     /\ Truthy(exited[t].before.trace_id)
     /\ Truthy(exited[t].before.parent_id)) =>
      exited[t].after = exited[t].before

\* the end events of the method call that thread t left last by returning,
\* on an instance of a class that records results
MethodEndEvents(t) ==
  IF /\ exited[t].valid /\ exited[t].kind = "method"
     /\ exited[t].exc = NoExc
     /\ TRACED_RECORD_RESULTS(instances[calls[exited[t].call].inst].class)
    THEN {e \in EventsOf(exited[t].call) : e.event_type = "end"}
    ELSE {}

\* C36 as stated: in whole-object mode with result recording enabled, the
\* end event of a call that returned zero (a falsy value) has no result in
\* its data.
C36_FalsyResultsOmitted ==
  \A t \in Threads : \A e \in MethodEndEvents(t) :
    exited[t].result = 0 => "result" \notin e.data.keys

\* C36, amended: in whole-object mode with result recording enabled, the end
\* event of a call that returned has the result in its data unless the
\* result is None; zero is recorded as it was returned.
C36_OnlyNoneResultsOmitted ==
  \A t \in Threads : \A e \in MethodEndEvents(t) :
    /\ "result" \in e.data.keys <=> exited[t].result # NoResult
    /\ "result" \in e.data.keys => e.data.result = exited[t].result

\* a wrapped method returned zero and its end event is in storage
C36_Witness ==
  /\ exited[1].result = 0
  /\ \E e \in MethodEndEvents(1) : e.data.result = 0

RECURSIVE Encloses(_, _)
\* invocation n was made inside invocation m, directly or further down
Encloses(m, n) ==
  /\ calls[n].caller # 0
  /\ calls[n].caller = m \/ Encloses(m, calls[n].caller)
\* storage positions of the events the wrapper of invocation n saved
PositionsOf(n) == {i \in 1..Len(events) : events[i].call = n}

\* C37: the events of @traced calls of one thread are stored well nested.
\* Of a call the start event comes before the terminal event.  Of a call P
\* and a call C made inside P, every event of C comes after the start event
\* of P and before the terminal event of P; of two calls neither of which
\* encloses the other, every event of the earlier call comes before every
\* event of the later one.  When P and C have both returned, storage holds
\* start(P), start(C), end(C), end(P) in that order, each once.
C37_EventsAreWellNested ==
  /\ \A n \in CallIds :
       calls[n].kind = "fn" =>
         /\ \A i \in StartsOf(n), j \in TerminalsOf(n) : i < j
         /\ (calls[n].done /\ calls[n].exc = NoExc) =>
              /\ Cardinality(StartsOf(n)) = 1
              /\ Cardinality(TerminalsOf(n)) = 1
              /\ PositionsOf(n) = StartsOf(n) \cup TerminalsOf(n)
  /\ \A m, n \in CallIds :
       (/\ m < n
        /\ calls[m].kind = "fn" /\ calls[n].kind = "fn"
        /\ calls[m].thread = calls[n].thread) =>
         \A i \in PositionsOf(m), j \in PositionsOf(n) :
           IF Encloses(m, n) /\ events[i].event_type # "start"
             THEN j < i ELSE i < j

\* call 2 was made inside call 1, both have returned, and a third call was
\* made after them; storage holds start(1), start(2), end(2), end(1) and
\* then the start event of the third call
C37_Witness ==
  /\ Len(calls) = 3
  /\ calls[2].caller = 1 /\ calls[3].caller = 0
  /\ calls[1].done /\ calls[1].exc = NoExc
  /\ calls[2].done /\ calls[2].exc = NoExc
  /\ Len(events) = 5
  /\ [i \in 1..5 |-> <<events[i].call, events[i].event_type>>] =
       <<<<1, "start">>, <<2, "start">>, <<2, "end">>, <<1, "end">>,
         <<3, "start">>>>

\* the trace ids in the store
StoredTraces == {e.trace_id : e \in EventSet}
RECURSIVE ReachedFrom(_, _)
\* the executions of trace tr found by following children links from the
\* executions in found
ReachedFrom(tr, found) ==
  LET next == found \cup UNION {Children(tr, x) : x \in found}
  IN  IF next = found THEN found ELSE ReachedFrom(tr, next)

\* invocation n is of a function or span that was given a parent_id
ParentGiven(n) ==
  \/ calls[n].kind = "fn" /\ FnParentId(calls[n].op) # None
  \/ calls[n].kind = "span" /\ SpanParentId(calls[n].op) # None

\* C38: every event saved for an @traced function or a span that was given
\* no parent_id has either no parent_id or the execution_id of an invocation that began before its
\* own, never its own execution_id; and in the tree the viewer rebuilds for
\* any stored trace every execution is reached through children links from
\* exactly one root execution.
C38_ParentsAreEarlierAndTreesHaveOneRoot ==
  /\ \A i \in 1..Len(events) :
       LET e == events[i]
       IN  (e.call \in CallIds /\ calls[e.call].kind \in {"fn", "span"}
              /\ ~ParentGiven(e.call) /\ e.parent_id # None) =>
             /\ e.parent_id # e.execution_id
             /\ \E m \in 1..(e.call - 1) :
                  calls[m].execution_id = e.parent_id
  /\ \A tr \in StoredTraces : \A x \in Executions(tr) :
       Cardinality({r \in root_executions(tr) :
                      x \in ReachedFrom(tr, {r})}) = 1

\* a function called a span region in which a function was called: the
\* span is the only child of the outer function and the inner function the
\* only child of the span; a later call began a second root in the trace
C38_Witness ==
  /\ Len(calls) = 3
  /\ calls[1].kind = "fn" /\ calls[2].kind = "span" /\ calls[3].kind = "fn"
  /\ calls[2].caller = 1 /\ calls[3].caller = 2
  /\ \A n \in CallIds : StartsOf(n) # {}
  /\ LET tr == calls[1].trace_id
     IN  /\ root_executions(tr) = {calls[1].execution_id}
         /\ Children(tr, calls[1].execution_id) = {calls[2].execution_id}
         /\ Children(tr, calls[2].execution_id) = {calls[3].execution_id}
         /\ ReachedFrom(tr, {calls[1].execution_id}) = Executions(tr)

\* invocations of the helper n on an instance that have returned
ReturnedHelperCalls(n) ==
  {c \in CallIds : /\ calls[c].kind = "method" /\ calls[c].op = n
                   /\ calls[c].done /\ calls[c].exc = NoExc}

\* C39: the helpers of a Traced object are not instrumented.  A call of
\* save_artifact on an instance that has returned saved no event at all and
\* stored an artifact stamped with the instance's trace_id and execution_id,
\* and once user code is back at top level there are exactly as many
\* artifacts as returned save_artifact calls; a call of trace_event that has
\* returned saved exactly one event, the custom event of the type it was
\* given.
C39_HelpersAreNotInstrumented ==
  /\ \A c \in ReturnedHelperCalls("save_artifact") :
       /\ PositionsOf(c) = {}
       /\ \E k \in 1..Len(artifacts) :
            /\ artifacts[k].trace_id = instances[calls[c].inst].trace_id
            /\ artifacts[k].execution_id =
                 instances[calls[c].inst].execution_id
  /\ Quiescent =>
       Len(artifacts) = Cardinality(ReturnedHelperCalls("save_artifact"))
  /\ \A c \in ReturnedHelperCalls("trace_event") :
       /\ Cardinality(PositionsOf(c)) = 1
       /\ \A i \in PositionsOf(c) :
            /\ events[i].method_name = "custom"
            /\ events[i].event_type \in program.args

\* C40: save_trace_event calls made by several threads on one
\* InMemoryTraceStorage lose nothing.  In every interleaving, every call
\* that has returned was given a key no other call was given, the store
\* holds the call's event under that key and under no other, and
\* get_trace of the event's trace returns the event exactly once; once all
\* calls have returned the store holds nothing else.
C40_ConcurrentSavesLoseNothing ==
  /\ \A i, j \in 1..Len(saved) : i # j => saved[i].ret # saved[j].ret
  /\ \A i \in 1..Len(saved) :
       LET s == saved[i]
           got == get_trace("memory", events, artifacts, s.rec.trace_id)
       IN  /\ Cardinality({k \in 1..Len(events) :
                             events[k].key = s.ret}) = 1
           /\ \A k \in 1..Len(events) :
                to_dict(events[k]) = to_dict(s.rec) <=> events[k].key = s.ret
           /\ Cardinality({k \in 1..Len(got.events) :
                             got.events[k] = to_dict(s.rec)}) = 1
  /\ Quiescent => Len(events) = Len(saved)

\* three calls have returned, two of them to the same trace by different
\* threads, and the thread that drew its key later stored its event first
C40_Witness ==
  /\ Quiescent /\ Len(saved) = MaxMemSaves
  /\ \E i, j \in 1..Len(events) :
       /\ i < j /\ events[i].key > events[j].key
       /\ events[i].trace_id = events[j].trace_id
  /\ \E i, j \in 1..Len(saved) :
       /\ saved[i].thread # saved[j].thread
       /\ saved[i].rec.trace_id = saved[j].rec.trace_id
====
